---- MODULE Spec2Model ----
(***************************************************************************)
(* The graph generator of dynofuzz (src/dynofuzz/graph_gen.py): a growing  *)
(* graph IR, the live-placeholder list, the solver of the symbolic         *)
(* generator, and the forward / backward insertion loop of abstract_gen in *)
(* its five generation modes.                                              *)
(***************************************************************************)
EXTENDS Integers, Sequences, FiniteSets, TLC

\* ------------------------------------------------------------------ bounds
MaxNodes == 2
MaxDim == 2
MaxElem == 2
MaxRank == 2
MaxAttempts == 3
RandMax == 1

\* max_tensor_pick_time of try_insert_node_type
MaxTensorPickTime == 3

\* last_solution: None, or the model of the last check that ended sat
NoModel == [has |-> FALSE, m |-> <<>>]
Solution(m) == [has |-> TRUE, m |-> m]

\* ------------------------------------------------------------------ dtypes
DTYPE_GEN_ALL == {"float32", "int32"}
DTypes == DTYPE_GEN_ALL \cup {"complex64"}

\* rank_all(): the ranks a placeholder may be given
Ranks == 0..MaxRank
\* rank_from(1)
RankFrom1 == 1..MaxRank

\* ------------------------------------------------------------------ symbolic integers
\* A shape entry is a monomial c * s[1] * ... * s[n] over solver symbols; a
\* concrete dimension is the monomial with no symbol.
PhSym(id, k) == [t |-> "ph", i |-> id, k |-> k]
OpSym(id, k) == [t |-> "op", i |-> id, k |-> k]
AttrSym(k) == [t |-> "s", i |-> 0, k |-> k]

Conc(n) == [c |-> n, s |-> <<>>]
SymT(x) == [c |-> 1, s |-> <<x>>]
IsConc(t) == t.s = <<>>
Mul(a, b) == [c |-> a.c * b.c, s |-> a.s \o b.s]

RECURSIVE Prod(_)
Prod(shape) == IF shape = <<>> THEN Conc(1) ELSE Mul(Head(shape), Prod(Tail(shape)))

RECURSIVE EvalSyms(_, _)
EvalSyms(ss, m) == IF ss = <<>> THEN 1 ELSE m[Head(ss)] * EvalSyms(Tail(ss), m)

Eval(t, m) == t.c * EvalSyms(t.s, m)

Range(f) == {f[i] : i \in DOMAIN f}

TermSyms(t) == Range(t.s)

\* ------------------------------------------------------------------ abstract tensors
Tensor(shape, dtype) == [shape |-> shape, dtype |-> dtype]
Ndims(t) == Len(t.shape)
Nelement(t) == Prod(t.shape)

\* a constraint is l rel r over monomials
Cst(rel, l, r) == [rel |-> rel, l |-> l, r |-> r]
CstSyms(c) == TermSyms(c.l) \cup TermSyms(c.r)
IsGround(c) == CstSyms(c) = {}

Holds(c, m) ==
    LET a == Eval(c.l, m)
        b == Eval(c.r, m)
    IN CASE c.rel = "eq" -> a = b
         [] c.rel = "ge" -> a >= b
         [] c.rel = "gt" -> a > b
         [] c.rel = "le" -> a <= b

EmptyModel == <<>>

SeqSyms(cs) == UNION {CstSyms(cs[i]) : i \in DOMAIN cs}

\* AbsTensor.gt_zero: a symbolic dimension yields the constraint s > 0, a
\* concrete one is checked on the spot (ConstraintError when it fails)
SymDims(t) == SelectSeq(t.shape, LAMBDA d : ~IsConc(d))
ConcDims(t) == SelectSeq(t.shape, LAMBDA d : IsConc(d))

GtZeroCs(t) == [i \in 1..Len(SymDims(t)) |-> Cst("gt", SymDims(t)[i], Conc(0))]
GtZeroRaises(t) == \E i \in 1..Len(ConcDims(t)) : ~(ConcDims(t)[i].c > 0)
SymGtConcGeZeroCs(t) == GtZeroCs(t)
SymGtConcGeZeroRaises(t) == \E i \in 1..Len(ConcDims(t)) : ~(ConcDims(t)[i].c >= 0)

\* AbsTensor.eq: elementwise equality of two shapes of one rank
TensorEqCs(a, b) == [i \in 1..Len(a.shape) |-> Cst("eq", a.shape[i], b.shape[i])]

\* BaseGen.tensor_type_constraints
tensor_type_constraints(t) == <<Cst("le", Nelement(t), Conc(MaxElem))>>

\* ------------------------------------------------------------------ solver
\* The values a solver model gives a symbol
DimVals == 0..MaxDim

RECURSIVE Extend(_, _, _)
Extend(ms, todo, cs) ==
    IF todo = {} \/ ms = {} THEN ms
    ELSE LET x == CHOOSE y \in todo : TRUE
             dom == DOMAIN (CHOOSE m \in ms : TRUE) \cup {x}
             ready == {i \in DOMAIN cs : x \in CstSyms(cs[i]) /\ CstSyms(cs[i]) \subseteq dom}
             ext == {m @@ (x :> v) : m \in ms, v \in DimVals}
         IN Extend({m \in ext : \A i \in ready : Holds(cs[i], m)}, todo \ {x}, cs)

\* every model of the conjunction cs, over the symbols of cs
Models(cs) ==
    IF \E i \in DOMAIN cs : IsGround(cs[i]) /\ ~Holds(cs[i], EmptyModel) THEN {}
    ELSE Extend({EmptyModel}, SeqSyms(cs), cs)

\* ------------------------------------------------------------------ graph IR
\* A variable is the k-th return value of instruction i (InstIR.retval).
Var(i, k) == [i |-> i, k |-> k]

PlaceholderOp == [name |-> "Placeholder", kind |-> "ph", params |-> <<>>]
IsPlaceholderOp(op) == op.name \in {"Placeholder", "Input", "Constant"}

InstIds(g) == {g.insts[j].id : j \in DOMAIN g.insts}

\* GraphIR.find_inst_by_id
find_inst_by_id(g, id) == CHOOSE j \in DOMAIN g.insts : g.insts[j].id = id

\* GraphIR.n_inst
n_inst(g) == Len(g.insts)

\* GraphIR.n_compute_inst: placeholders are not counted
n_compute_inst(g) ==
    Cardinality({j \in DOMAIN g.insts : ~IsPlaceholderOp(g.insts[j].op)})

\* GraphIR.add_inst: a new instruction with a fresh identifier, whose return
\* values enter the variable map with the operator's output types
add_inst(g, op, args, rets) ==
    [g EXCEPT !.insts = Append(@, [id |-> g.n_created, op |-> op, args |-> args,
                                   nret |-> Len(rets)]),
              !.irvars = @ @@ [v \in {Var(g.n_created, k - 1) : k \in 1..Len(rets)}
                                    |-> rets[v.k + 1]],
              !.n_created = @ + 1]

\* the identifier add_inst gives the next instruction, and its return values
NewRetvals(g, n) == [k \in 1..n |-> Var(g.n_created, k - 1)]

ReplaceIn(args, old, new) == [j \in DOMAIN args |-> IF args[j] = old THEN new ELSE args[j]]

\* GraphIR.replace_alluse: every use of oldvar becomes a use of newvar
replace_alluse(g, oldvar, newvar) ==
    [g EXCEPT !.insts = [j \in DOMAIN @ |->
                            [@[j] EXCEPT !.args = ReplaceIn(@, oldvar, newvar)]]]

\* GraphIR.remove_unused: the instruction leaves the list and its return
\* values leave the variable map
remove_unused(g, id) ==
    [g EXCEPT !.insts = SelectSeq(@, LAMBDA inst : inst.id # id),
              !.irvars = [v \in {w \in DOMAIN @ : w.i # id} |-> @[v]]]

\* the variables some instruction takes as an argument
UsedVars(g) == UNION {Range(g.insts[j].args) : j \in DOMAIN g.insts}

\* list.remove: the first occurrence leaves the list
RECURSIVE ListRemove(_, _)
ListRemove(s, x) ==
    IF s = <<>> THEN <<>>
    ELSE IF Head(s) = x THEN Tail(s)
    ELSE <<Head(s)>> \o ListRemove(Tail(s), x)

\* ------------------------------------------------------------------ BaseGen
\* BaseGen.forward_insert_node: the instruction is appended; a placeholder's
\* return value joins the live-placeholder list
forward_insert_node(g, op, input_vars, rets) ==
    LET g1 == add_inst(g, op, input_vars, rets)
    IN IF op.name = "Placeholder"
       THEN [g1 EXCEPT !.placeholders = Append(@, Var(g.n_created, 0))]
       ELSE g1

\* the loop of backward_insert_node over zip(ph_to_replace, retvals); an
\* occupied placeholder that is no longer in the IR stops the generator
RECURSIVE RetireLoop(_, _, _, _)
RetireLoop(g, phs, rvs, j) ==
    IF j > Len(phs) \/ j > Len(rvs) THEN [g |-> g, crashed |-> FALSE]
    ELSE IF phs[j] \notin DOMAIN g.irvars \/ phs[j] \notin Range(g.placeholders)
         THEN [g |-> g, crashed |-> TRUE]
    ELSE LET g1 == replace_alluse(g, phs[j], rvs[j])
             g2 == remove_unused(g1, phs[j].i)
             g3 == [g2 EXCEPT !.placeholders = ListRemove(@, phs[j])]
         IN RetireLoop(g3, phs, rvs, j + 1)

\* backward_insert_node that retires the first occupied placeholder only
backward_insert_node_first(g, op, input_vars, ph_to_replace, rets) ==
    RetireLoop(forward_insert_node(g, op, input_vars, rets), SubSeq(ph_to_replace, 1, 1),
               NewRetvals(g, Len(rets)), 1)

\* BaseGen.backward_insert_node
backward_insert_node(g, op, input_vars, ph_to_replace, rets) ==
    RetireLoop(forward_insert_node(g, op, input_vars, rets), ph_to_replace,
               NewRetvals(g, Len(rets)), 1)

\* num_op that counts the placeholders too
num_op_all(g) == n_inst(g)

\* BaseGen.num_op
num_op(g) == n_compute_inst(g)

RECURSIVE Flat(_)
Flat(ss) == IF ss = <<>> THEN <<>> ELSE Head(ss) \o Flat(Tail(ss))

MapSeq(s, F(_)) == [j \in DOMAIN s |-> F(s[j])]

\* ------------------------------------------------------------------ dialect operators
\* The two operator classes of src/dynofuzz/materialize/torch/dialect.py that
\* are complete in the sources: Linear(ifeat, ofeat) and Flatten().
OpTypes == {"Linear", "Flatten"}

get_num_var_param(node_t) == IF node_t = "Linear" THEN 2 ELSE 0

MkOp(node_t, params) == [name |-> node_t, kind |-> "dialect", params |-> params]

\* An operator class with two outputs that a caller's opset may hold beside
\* them: Unbind2 takes a tensor [2, n] apart into two tensors [n].
TwoOutputName == "Unbind2"

inp_ranks(node_t) == IF node_t = TwoOutputName THEN <<{2}>> ELSE <<RankFrom1>>
out_ranks(node_t) ==
    CASE node_t = "Linear" -> <<RankFrom1>>
      [] node_t = TwoOutputName -> <<{1}, {1}>>
      [] OTHER -> <<{1}>>
in_dtypes(node_t) ==
    IF node_t = "Linear" THEN {<<"float32">>} ELSE {<<d>> : d \in DTYPE_GEN_ALL}
out_dtypes(node_t) ==
    IF node_t = TwoOutputName THEN {<<d, d>> : d \in DTYPE_GEN_ALL} ELSE in_dtypes(node_t)

\* Linear.requires begins with ConstraintCheck.true(ndims >= 1)
RequiresRaises(op, its) == op.name = "Linear" /\ ~(Ndims(its[1]) >= 1)

LinearRequires(op, its) ==
    << Cst("ge", op.params[1], Conc(1)),
       Cst("ge", op.params[2], Conc(1)),
       Cst("eq", its[1].shape[Ndims(its[1])], op.params[1]) >>

\* An operator instance with inferred rules (AutoInfOpBase over an OpInstance):
\* one rank-1 input tensor [s0], two integer attributes s1 and s2, one rank-1
\* output [o0]; shape rule o0 = s0 * s1, input rule s1 - 1 >= 0, and no rule
\* that mentions s2.
AutoInfName == "ai_repeat"
AutoInfA == <<AttrSym(1), AttrSym(2)>>
AutoInfRequires(op, its) == << Cst("ge", op.params[1], Conc(1)) >>
AutoInfTypeTransfer(op, its) ==
    << Tensor(<<Mul(its[1].shape[1], op.params[1])>>, its[1].dtype) >>
AutoInfInputRanks == <<1>>
AutoInfOutputRanks == <<1>>
AutoInfDtypes == {<<"float32">>}

TwoOutputRequires(op, its) == << Cst("eq", its[1].shape[1], Conc(2)) >>
TwoOutputTypeTransfer(op, its) ==
    << Tensor(<<its[1].shape[2]>>, its[1].dtype), Tensor(<<its[1].shape[2]>>, its[1].dtype) >>

requires(op, its) ==
    CASE op.name = "Linear" -> LinearRequires(op, its)
      [] op.name = AutoInfName -> AutoInfRequires(op, its)
      [] op.name = TwoOutputName -> TwoOutputRequires(op, its)
      [] OTHER -> <<>>

LinearTypeTransfer(op, its) ==
    << Tensor(SubSeq(its[1].shape, 1, Ndims(its[1]) - 1) \o <<op.params[2]>>, "float32") >>

FlattenTypeTransfer(op, its) == << Tensor(<<Prod(its[1].shape)>>, its[1].dtype) >>

type_transfer(op, its) ==
    CASE op.name = "Linear" -> LinearTypeTransfer(op, its)
      [] op.name = AutoInfName -> AutoInfTypeTransfer(op, its)
      [] op.name = TwoOutputName -> TwoOutputTypeTransfer(op, its)
      [] OTHER -> FlattenTypeTransfer(op, its)

\* deduct_inp_ranks_and_dtype: the (rank, dtype) of each input to create; the
\* rank Flatten draws with randint(0, 4) is drawn from Ranks here
deduct_inp_ranks_and_dtype(op, ots) ==
    CASE op.name = "Linear" -> {<< <<Ndims(ots[1]), "float32">> >>}
      [] op.name = AutoInfName -> {<< <<AutoInfInputRanks[1], ots[1].dtype>> >>}
      [] op.name = TwoOutputName -> {<< <<2, ots[1].dtype>> >>}
      [] OTHER -> {<< <<r, ots[1].dtype>> >> : r \in Ranks}

\* ------------------------------------------------------------------ picking variables
\* BaseGen.filter_rank_dtype (dtype "any" stands for None)
filter_rank_dtype(g, ndims, dtype, cands) ==
    {v \in cands : Ndims(g.irvars[v]) \in ndims
                   /\ (dtype = "any" \/ g.irvars[v].dtype = dtype)}

\* BaseGen.pick_var_group: the groups random.choice can return, or
\* RequiredDimNotFound (raise)
Picked(vs) == [raise |-> FALSE, vars |-> vs]
PickRaise == [raise |-> TRUE, vars |-> <<>>]

PickOfComb(g, ndim_list, comb, cands) ==
    IF \E j \in DOMAIN ndim_list : filter_rank_dtype(g, ndim_list[j], comb[j], cands) = {}
    THEN {PickRaise}
    ELSE {Picked(f) : f \in {h \in [DOMAIN ndim_list -> cands] :
              \A j \in DOMAIN ndim_list :
                  h[j] \in filter_rank_dtype(g, ndim_list[j], comb[j], cands)}}

pick_var_group(g, ndim_list, dtype_combs_spec, var_candidates) ==
    LET cands == Range(var_candidates)
        dtypes_in_ir == {g.irvars[v].dtype : v \in cands}
        viable_dtypes == {g.irvars[v].dtype :
                            v \in UNION {filter_rank_dtype(g, ndim_list[j], "any", cands) :
                                            j \in DOMAIN ndim_list}}
        dtype_combs == {comb \in dtype_combs_spec :
                            \A j \in DOMAIN comb : comb[j] \in viable_dtypes}
    IN IF dtypes_in_ir \cap DTYPE_GEN_ALL = {} THEN {PickRaise}
       ELSE IF \E j \in DOMAIN ndim_list :
                   filter_rank_dtype(g, ndim_list[j], "any", cands) = {}
            THEN {PickRaise}
       ELSE IF dtype_combs = {} THEN {PickRaise}
       ELSE UNION {PickOfComb(g, ndim_list, comb, cands) : comb \in dtype_combs}

\* BaseGen.make_symbolic_placeholder, for the j-th placeholder made in one call
SymbolicPh(g, j, rank, dtype) ==
    Tensor([k \in 1..rank |-> SymT(PhSym(g.monotonic_placeholder_id + j - 1, k - 1))], dtype)

\* the placeholders try_occupy_placeholder makes for one result of
\* deduct_inp_ranks_and_dtype
SymbolicPhs(g, spec) == [j \in DOMAIN spec |-> SymbolicPh(g, j, spec[j][1], spec[j][2])]

\* forward_insert_node(ph, []) for each new placeholder, in order
RECURSIVE InsertPhs(_, _)
InsertPhs(g, phs) ==
    IF phs = <<>> THEN g
    ELSE InsertPhs(forward_insert_node(g, PlaceholderOp, <<>>, <<Head(phs)>>), Tail(phs))

\* the return values of the placeholders InsertPhs appends
PhRetvals(g, n) == [j \in 1..n |-> Var(g.n_created + j - 1, 0)]

\* the outcome of one insertion attempt: res is "ok" (committed), "fail"
\* (returned False), "dim" (RequiredDimNotFound), "cst" (ConstraintError) or
\* "crash" (another exception); chk is what the solver answered, if asked
NoConc == [none |-> TRUE]

Out(g, res, chk, why) ==
    [g |-> g, res |-> res, chk |-> chk, why |-> why, phs |-> <<>>, conc |-> NoConc]

\* the outcome of a concolic commit, with the operator, the solver model and
\* the concretised operator concretize_op_autoinf made of them
WithConc(o, node, m, cop) ==
    IF node.kind = "autoinf" THEN [o EXCEPT !.conc = [op |-> node, m |-> m, cop |-> cop]]
    ELSE o

\* after backward_insert_node
Retired(r, chk, phvars) ==
    [Out(r.g, IF r.crashed THEN "crash" ELSE "ok", chk, "backward") EXCEPT !.phs = phvars]

TensorEqRaises(a, b) ==
    \E j \in 1..Len(a.shape) :
        IsConc(a.shape[j]) /\ IsConc(b.shape[j]) /\ a.shape[j].c # b.shape[j].c

TensorEqSym(a, b) ==
    SelectSeq(TensorEqCs(a, b), LAMBDA c : ~IsGround(c))

\* ------------------------------------------------------------------ SymbolicGen
InputTensors(g, vs) == [j \in DOMAIN vs |-> g.irvars[vs[j]]]

\* SymbolicGen.assume, for a list of constraints
assume(g, cs) == [g EXCEPT !.solver = @ \o cs]

\* SymbolicGen.check_sat: the solver decides its assertions together with the
\* assumptions; a model is kept in last_solution only on sat. A check can
\* always end unknown (the solver's timeout).
SatModels(g, cs) == Models(g.solver \o cs)

\* SymbolicGen.try_forward_insert_at
SymForwardCs(node, its) ==
    LET ots == type_transfer(node, its)
    IN requires(node, its) \o Flat(MapSeq(ots, GtZeroCs))
                           \o Flat(MapSeq(ots, tensor_type_constraints))

SymForwardCommit(g, node, input_vars, cs, m) ==
    LET g1 == [assume(g, cs) EXCEPT !.last_solution = m]
    IN forward_insert_node(g1, node, input_vars,
                           type_transfer(node, InputTensors(g, input_vars)))

\* try_forward_insert_at that gives up on unsat only
SymTryForwardInsertAt_NotUnsat(g, node, input_vars) ==
    LET its == InputTensors(g, input_vars)
    IN IF RequiresRaises(node, its) THEN {Out(g, "cst", "none", "requires")}
       ELSE IF \E j \in DOMAIN type_transfer(node, its) :
                   GtZeroRaises(type_transfer(node, its)[j])
            THEN {Out(g, "cst", "none", "gt_zero")}
       ELSE LET cs == SymForwardCs(node, its)
                ms == SatModels(g, cs)
            IN {Out(SymForwardCommit(g, node, input_vars, cs, g.last_solution),
                    "ok", "unknown", "")}
               \cup (IF ms = {} THEN {Out(g, "fail", "unsat", "")}
                     ELSE {Out(SymForwardCommit(g, node, input_vars, cs, Solution(m)), "ok", "sat", "")
                              : m \in ms})

SymTryForwardInsertAt(g, node, input_vars) ==
    LET its == InputTensors(g, input_vars)
    IN IF RequiresRaises(node, its) THEN {Out(g, "cst", "none", "requires")}
       ELSE IF \E j \in DOMAIN type_transfer(node, its) :
                   GtZeroRaises(type_transfer(node, its)[j])
            THEN {Out(g, "cst", "none", "gt_zero")}
       ELSE LET cs == SymForwardCs(node, its)
                ms == SatModels(g, cs)
            IN {Out(g, "fail", "unknown", "")}
               \cup (IF ms = {} THEN {Out(g, "fail", "unsat", "")}
                     ELSE {Out(SymForwardCommit(g, node, input_vars, cs, Solution(m)), "ok", "sat", "")
                              : m \in ms})

\* SymbolicGen.try_occupy_placeholder, for one result spec of
\* deduct_inp_ranks_and_dtype
SymBackwardCs(g, node, phs, ots) ==
    LET inferred == type_transfer(node, phs)
    IN Flat([j \in DOMAIN phs |-> GtZeroCs(phs[j]) \o tensor_type_constraints(phs[j])])
       \o requires(node, phs)
       \o Flat([j \in DOMAIN inferred |->
                   TensorEqSym(inferred[j], ots[j]) \o GtZeroCs(inferred[j])])

SymBackwardCommit(g, node, phvars, phs, cs, m) ==
    LET g1 == [assume(g, cs) EXCEPT !.last_solution = m]
        g2 == InsertPhs(g1, phs)
    IN backward_insert_node(g2, node, PhRetvals(g1, Len(phs)), phvars,
                            type_transfer(node, phs))

SymOccupyWith(g, node, phvars, spec) ==
    LET ots == InputTensors(g, phvars)
        phs == SymbolicPhs(g, spec)
        g0 == [g EXCEPT !.monotonic_placeholder_id = @ + Len(spec)]
        inferred == type_transfer(node, phs)
    IN IF RequiresRaises(node, phs) THEN {Out(g0, "cst", "none", "requires")}
       ELSE IF \E j \in DOMAIN inferred :
                   TensorEqRaises(inferred[j], ots[j]) \/ GtZeroRaises(inferred[j])
            THEN {Out(g0, "cst", "none", "eq")}
       ELSE LET cs == SymBackwardCs(g, node, phs, ots)
                ms == SatModels(g, cs)
            IN {Out(g0, "fail", "unknown", "")}
               \cup (IF ms = {} THEN {Out(g0, "fail", "unsat", "")}
                     ELSE {Retired(SymBackwardCommit(g0, node, phvars, phs, cs, Solution(m)), "sat", phvars)
                              : m \in ms})

SymTryOccupyPlaceholder(g, node, phvars) ==
    UNION {SymOccupyWith(g, node, phvars, spec) :
              spec \in deduct_inp_ranks_and_dtype(node, InputTensors(g, phvars))}

\* ------------------------------------------------------------------ concretisation
\* the value random.randint(0, 64) gives an attribute no rule constrains
\* (drawn from 0..RandMax here)
RandAttr == 0..RandMax

Bound(t, m) == TermSyms(t) \subseteq DOMAIN m

\* every attribute drawn at random, whatever the model says
AttrValues_Random(t, m) == RandAttr

\* concretize_op_autoinf on an AutoInfOpBase: each attribute takes the model's
\* value when model.eval gives a number, and a random integer when it does not
AttrValues(t, m) == IF Bound(t, m) THEN {Eval(t, m)} ELSE RandAttr

ConcretizeAutoInf(op, m) ==
    {[op EXCEPT !.params = [j \in DOMAIN op.params |-> Conc(vals[j])]] :
        vals \in {v \in [DOMAIN op.params -> Int \cap (DimVals \cup RandAttr)] :
                     \A j \in DOMAIN op.params : v[j] \in AttrValues(op.params[j], m)}}

\* concretize_op on a dialect operator: every symbolic parameter is evaluated
ConcretizeDialect(op, m) ==
    {[op EXCEPT !.params = [j \in DOMAIN op.params |-> Conc(Eval(op.params[j], m))]]}

\* concretize_op_autoinf
concretize_op_autoinf(op, m) ==
    IF op.kind = "autoinf" THEN ConcretizeAutoInf(op, m) ELSE ConcretizeDialect(op, m)

\* concretize_op on a placeholder: its shape is evaluated under the model
ConcretizeTensor(t, m) == Tensor([j \in DOMAIN t.shape |-> Conc(Eval(t.shape[j], m))], t.dtype)

\* all(self.tensor_type_constraints(ten)) on a concrete tensor
SizeOk(t) == \A j \in DOMAIN tensor_type_constraints(t) :
                 Holds(tensor_type_constraints(t)[j], EmptyModel)

\* ------------------------------------------------------------------ ConcolicGen
\* the shape check made after the instruction went in
ConForwardCommit_Late(g, cop, input_vars) ==
    LET ots == type_transfer(cop, InputTensors(g, input_vars))
    IN Out(forward_insert_node(g, cop, input_vars, ots),
           IF \E j \in DOMAIN ots : ~SizeOk(ots[j]) THEN "fail" ELSE "ok", "sat",
           IF \E j \in DOMAIN ots : ~SizeOk(ots[j]) THEN "cap" ELSE "")

\* ConcolicGen.try_forward_insert_at, after the fresh solver said sat with
\* model m and the operator was concretised to cop
ConForwardCommit(g, cop, input_vars) ==
    LET ots == type_transfer(cop, InputTensors(g, input_vars))
    IN IF \E j \in DOMAIN ots : ~SizeOk(ots[j])
       THEN Out(g, "fail", "sat", "cap")
       ELSE Out(forward_insert_node(g, cop, input_vars, ots), "ok", "sat", "")

ConForwardCs(node, its, force_positive_dim) ==
    requires(node, its) \o Flat(MapSeq(type_transfer(node, its), GtZeroCs))

ConTryForwardInsertAt(g, node, input_vars, force_positive_dim) ==
    LET its == InputTensors(g, input_vars)
        ots == type_transfer(node, its)
    IN IF RequiresRaises(node, its) THEN {Out(g, "cst", "none", "requires")}
       ELSE IF force_positive_dim /\ \E j \in DOMAIN its : GtZeroRaises(its[j])
            THEN {Out(g, "cst", "none", "gt_zero")}
       ELSE IF force_positive_dim /\ \E j \in DOMAIN its : GtZeroCs(its[j]) # <<>>
            THEN {Out(g, "fail", "none", "symbolic input")}
       ELSE IF \E j \in DOMAIN ots :
                   IF force_positive_dim THEN GtZeroRaises(ots[j])
                   ELSE SymGtConcGeZeroRaises(ots[j])
            THEN {Out(g, "cst", "none", "gt_zero")}
       ELSE LET ms == Models(ConForwardCs(node, its, force_positive_dim))
            IN {Out(g, "fail", "unknown", "")}
               \cup (IF ms = {} THEN {Out(g, "fail", "unsat", "")}
                     ELSE UNION {{WithConc(ConForwardCommit(g, cop, input_vars), node, m, cop)
                                     : cop \in concretize_op_autoinf(node, m)} : m \in ms})

\* ConcolicGen.try_occupy_placeholder
ConBackwardCs(node, phs, ots) ==
    LET inferred == type_transfer(node, phs)
    IN Flat(MapSeq(phs, GtZeroCs))
       \o requires(node, phs)
       \o Flat([j \in DOMAIN inferred |->
                   TensorEqSym(inferred[j], ots[j]) \o GtZeroCs(inferred[j])])

ConBackwardCommit(g, cop, phvars, cphs) ==
    IF \E j \in DOMAIN cphs : ~SizeOk(cphs[j])
    THEN Out(g, "fail", "sat", "cap")
    ELSE Retired(backward_insert_node(InsertPhs(g, cphs), cop,
                                      PhRetvals(g, Len(cphs)), phvars,
                                      InputTensors(g, phvars)), "sat", phvars)

ConOccupyWith(g, node, phvars, spec, force_positive_dim) ==
    LET ots == InputTensors(g, phvars)
        phs == SymbolicPhs(g, spec)
        g0 == [g EXCEPT !.monotonic_placeholder_id = @ + Len(spec)]
        inferred == type_transfer(node, phs)
    IN IF RequiresRaises(node, phs) THEN {Out(g0, "cst", "none", "requires")}
       ELSE IF \E j \in DOMAIN inferred :
                   \/ TensorEqRaises(inferred[j], ots[j])
                   \/ IF force_positive_dim THEN GtZeroRaises(inferred[j])
                      ELSE SymGtConcGeZeroRaises(inferred[j])
            THEN {Out(g0, "cst", "none", "eq")}
       ELSE LET ms == Models(ConBackwardCs(node, phs, ots))
            IN {Out(g0, "fail", "unknown", "")}
               \cup (IF ms = {} THEN {Out(g0, "fail", "unsat", "")}
                     ELSE UNION {{WithConc(ConBackwardCommit(g0, cop, phvars,
                                                    MapSeq(phs, LAMBDA t : ConcretizeTensor(t, m))),
                                           node, m, cop)
                                     : cop \in concretize_op_autoinf(node, m)} : m \in ms})

ConTryOccupyPlaceholder(g, node, phvars, force_positive_dim) ==
    UNION {ConOccupyWith(g, node, phvars, spec, force_positive_dim) :
              spec \in deduct_inp_ranks_and_dtype(node, InputTensors(g, phvars))}

\* ------------------------------------------------------------------ record finder
\* The records of the OpRecordFinder handed to model_gen: per operator the
\* (itensors, otensors, attrs) of its recorded invocations, all concrete: a
\* unary operator from complex64 to float32, a binary operator, and an operator
\* with two outputs. model_gen takes the finder and max_elem_per_tensor as
\* separate arguments; this finder holds a tensor of four elements.
CT(shape, dtype) == Tensor(MapSeq(shape, Conc), dtype)

Records ==
    << [op |-> "rec_abs",    itensors |-> <<CT(<<2>>, "complex64")>>,
                             otensors |-> <<CT(<<2>>, "float32")>>, attrs |-> <<>>],
       [op |-> "rec_outer",  itensors |-> <<CT(<<2>>, "float32"), CT(<<2>>, "float32")>>,
                             otensors |-> <<CT(<<2, 2>>, "float32")>>, attrs |-> <<>>],
       [op |-> "rec_unbind", itensors |-> <<CT(<<2, 2>>, "float32")>>,
                             otensors |-> <<CT(<<2>>, "float32"), CT(<<2>>, "float32")>>,
                             attrs |-> <<Conc(0)>>] >>

RecordOps == {Records[j].op : j \in DOMAIN Records}

\* record_finder.op2record[op_type], as positions in Records
op2record(op_type) == {j \in DOMAIN Records : Records[j].op = op_type}

\* record_finder.producer / consumer: the operators with a record that
\* produces / consumes a tensor type
producer(t) == {Records[j].op : j \in {i \in DOMAIN Records : t \in Range(Records[i].otensors)}}
consumer(t) == {Records[j].op : j \in {i \in DOMAIN Records : t \in Range(Records[i].itensors)}}

RecordTensors ==
    UNION {Range(Records[j].itensors) \cup Range(Records[j].otensors) : j \in DOMAIN Records}

RecordOp(rec) == [name |-> rec.op, kind |-> "record", params |-> rec.attrs]

\* ------------------------------------------------------------------ DynoFuzzR
\* try_concrete_forward_insert_op: every input type of the record must be the
\* type of some variable; the variables are drawn with random.choice
ForwardMatches(g, rec, cands) ==
    {ivars \in [DOMAIN rec.itensors -> cands] :
        \A j \in DOMAIN rec.itensors : g.irvars[ivars[j]] = rec.itensors[j]}

\* try_concrete_backward_insert_op: every output type of the record must be
\* the type of a live placeholder, no placeholder used twice
BackwardMatches(g, rec, phs) ==
    {ovars \in [DOMAIN rec.otensors -> phs] :
        /\ \A j \in DOMAIN rec.otensors : g.irvars[ovars[j]] = rec.otensors[j]
        /\ \A j, k \in DOMAIN rec.otensors : j # k => ovars[j] # ovars[k]}

\* the first record of op_type, in list order, that matches
FirstMatch(op_type, Matches(_)) ==
    LET ok == {j \in op2record(op_type) : Matches(Records[j]) # {}}
    IN IF ok = {} THEN 0 ELSE CHOOSE j \in ok : \A k \in ok : j <= k

\* try_concrete_insert_forward
try_concrete_insert_forward(g) ==
    LET vars == DOMAIN g.irvars
        op_types == UNION {consumer(g.irvars[v]) : v \in vars}
        M(rec) == ForwardMatches(g, rec, vars)
        hits == {t \in op_types : FirstMatch(t, M) # 0}
    IN IF hits = {} THEN {Out(g, "fail", "none", "no record")}
       ELSE UNION {LET rec == Records[FirstMatch(t, M)]
                   IN {Out(forward_insert_node(g, RecordOp(rec), ivars, rec.otensors),
                           "ok", "none", "record")
                          : ivars \in M(rec)} : t \in hits}

RecordBackwardCommit(g, rec, ovars) ==
    Retired(backward_insert_node(InsertPhs(g, rec.itensors), RecordOp(rec),
                                 PhRetvals(g, Len(rec.itensors)), ovars, rec.otensors),
            "none", ovars)

\* try_concrete_insert_backward
try_concrete_insert_backward(g) ==
    LET phs == Range(g.placeholders)
        op_types == UNION {producer(g.irvars[v]) : v \in phs}
        M(rec) == BackwardMatches(g, rec, phs)
        hits == {t \in op_types : FirstMatch(t, M) # 0}
    IN IF hits = {} THEN {Out(g, "fail", "none", "no record")}
       ELSE UNION {LET rec == Records[FirstMatch(t, M)]
                   IN {RecordBackwardCommit(g, rec, ovars) : ovars \in M(rec)} : t \in hits}

\* ------------------------------------------------------------------ DynoFuzz
Htype(t) == <<t.dtype, Ndims(t)>>

AutoInfOp == [name |-> AutoInfName, kind |-> "autoinf", params |-> MapSeq(AutoInfA, SymT)]

\* vcombs[:4] / ph_comb_cands[:4]
MaxCombTries == 4

Min(a, b) == IF a < b THEN a ELSE b

\* try_autoinf_insert_forward: up to four variable combinations are tried in
\* turn, each with try_forward_insert_at(op, vcomb, force_positive_dim=True);
\* the first that is committed ends the attempt
try_autoinf_insert_forward(g) ==
    LET vars == DOMAIN g.irvars
        vcombs == {vc \in [DOMAIN AutoInfInputRanks -> vars] :
                      \E dts \in AutoInfDtypes : \A j \in DOMAIN AutoInfInputRanks :
                          Htype(g.irvars[vc[j]]) = <<dts[j], AutoInfInputRanks[j]>>}
        tries == UNION {ConTryForwardInsertAt(g, AutoInfOp, vc, TRUE) : vc \in vcombs}
    IN {Out(g, "fail", "none", "no candidate")}
       \cup {o \in tries : o.res = "ok"}

\* try_autoinf_insert_backward: as above over placeholder combinations; a
\* combination that was tried and dropped has advanced the placeholder
\* counter, n tries before the committed one advance it n times
AdvancePh(g, n) ==
    [g EXCEPT !.monotonic_placeholder_id = @ + n * Len(AutoInfInputRanks)]

try_autoinf_insert_backward(g) ==
    LET phs == Range(g.placeholders)
        combs == {phc \in [DOMAIN AutoInfOutputRanks -> phs] :
                     /\ \E dts \in AutoInfDtypes : \A j \in DOMAIN AutoInfOutputRanks :
                            Htype(g.irvars[phc[j]]) = <<dts[j], AutoInfOutputRanks[j]>>
                     /\ \A j, k \in DOMAIN AutoInfOutputRanks : j # k => phc[j] # phc[k]}
        ntry == Min(MaxCombTries, Cardinality(combs))
    IN {Out(AdvancePh(g, ntry), "fail", "none", "no candidate")}
       \cup UNION {{o \in ConTryOccupyPlaceholder(AdvancePh(g, n), AutoInfOp, phc, TRUE)
                       : o.res \in {"ok", "crash"}}
                      : n \in 0..(ntry - 1), phc \in combs}

\* ------------------------------------------------------------------ model_gen
Methods == {"symbolic", "concolic", "dynofuzz-r", "dynofuzz", "dynofuzz-i"}
RecordModes == {"dynofuzz-r", "dynofuzz", "dynofuzz-i"}

VARIABLES method, max_node_size, run, twin, OpDB, worker, fs

vars == <<method, max_node_size, run, twin, OpDB, worker, fs>>

\* the generator's variables, and those of the offline rule-mining stages
\* (src/autoinf/autoinf/inference): the invocation DB of one operator, the
\* worker that runs one stage on it, and the rule files on disk
genvars == <<method, max_node_size, run, twin>>
infvars == <<OpDB, worker, fs>>

\* no rule-mining stage is running
NoStage == OpDB = <<>> /\ worker = <<>> /\ fs = <<>>

\* BaseGen.__init__: an empty IR, no placeholder, the placeholder counter at 0
EmptyGen ==
    [insts |-> <<>>, irvars |-> <<>>, placeholders |-> <<>>,
     monotonic_placeholder_id |-> 0, n_created |-> 0,
     solver |-> <<>>, last_solution |-> NoModel, symbolic_impossible |-> 0]

\* BaseGen.make_random_concrete_placeholder: each dimension is drawn from
\* concr_ph_dim_rng (1..MaxDim here) and becomes 1 when the running product
\* would pass the cap; the shape is then shuffled
RECURSIVE CapDraws(_, _)
CapDraws(vs, product) ==
    IF vs = <<>> THEN <<>>
    ELSE LET v == IF product * Head(vs) > MaxElem THEN 1 ELSE Head(vs)
         IN <<v>> \o CapDraws(Tail(vs), product * v)

Shuffles(s) ==
    {[j \in DOMAIN s |-> s[f[j]]] :
        f \in {h \in [DOMAIN s -> DOMAIN s] : \A a, b \in DOMAIN s : a # b => h[a] # h[b]}}

make_random_concrete_placeholder(rank) ==
    {CT(sh, dt) : sh \in UNION {Shuffles(CapDraws(vs, 1)) : vs \in [1..rank -> 1..MaxDim]},
                  dt \in DTYPE_GEN_ALL}

\* DynoFuzzR.make_random_concrete_placeholder: a recorded tensor type of the
\* rank when there is one, the base draw when there is none
DynoFuzzR_make_random_concrete_placeholder(rank) ==
    LET cand == {t \in RecordTensors : Ndims(t) = rank}
    IN IF cand = {} THEN make_random_concrete_placeholder(rank) ELSE cand

\* BaseGen.insert_init_ph_node
insert_init_ph_node(g, ph) ==
    assume(forward_insert_node(g, PlaceholderOp, <<>>, <<ph>>), SymGtConcGeZeroCs(ph))

\* SymbolicGen.__init__ (symbolic_init=True)
SymbolicGenInit ==
    {LET ph == SymbolicPh(EmptyGen, 1, rank, dt)
         g0 == [EmptyGen EXCEPT !.monotonic_placeholder_id = 1]
     IN assume(insert_init_ph_node(g0, ph), tensor_type_constraints(ph))
        : rank \in Ranks, dt \in DTYPE_GEN_ALL}

\* ConcolicGen.__init__
ConcolicGenInit ==
    {forward_insert_node(EmptyGen, PlaceholderOp, <<>>, <<ph>>) :
        ph \in UNION {make_random_concrete_placeholder(rank) : rank \in Ranks}}

\* DynoFuzzR.__init__
DynoFuzzRInit ==
    {forward_insert_node(EmptyGen, PlaceholderOp, <<>>, <<ph>>) :
        ph \in UNION {DynoFuzzR_make_random_concrete_placeholder(rank) : rank \in Ranks}}

\* model_gen: the generator built for a method
InitGens(m) ==
    CASE m = "symbolic" -> SymbolicGenInit
      [] m = "concolic" -> ConcolicGenInit
      [] OTHER -> DynoFuzzRInit

\* ------------------------------------------------------------------ one run
\* what the last step of a run did: kind names the step, res / chk / why / phs
\* are those of its insertion outcome
Last(kind, o) ==
    [kind |-> kind, res |-> o.res, chk |-> o.chk, why |-> o.why, phs |-> o.phs,
     conc |-> o.conc]
Plain(res) == [res |-> res, chk |-> "none", why |-> "", phs |-> <<>>, conc |-> NoConc]
NoLast == Last("init", Plain(""))

\* a run of abstract_gen: the generator g, the position pc in try_insert, the
\* operator type and the picks left of try_insert_node_type, the attempts
\* begun, the generator pre as it was when the current attempt began, and
\* fail_run, the number of attempts in a row that ended on the dtype test
InitRun(g) ==
    [g |-> g, pc |-> "loop", node_t |-> "", picks |-> 0, n_attempt |-> 0,
     pre |-> g, fail_run |-> 0, last |-> NoLast]

\* DynoFuzzR.extra_exit_check (BaseGen.extra_exit_check is False)
extra_exit_check(g) ==
    method \in RecordModes /\ g.symbolic_impossible >= max_node_size

\* the loop test with num_op() <= max_node_size
LoopRuns_Le(r) ==
    /\ r.pc = "loop"
    /\ r.n_attempt < MaxAttempts
    /\ num_op(r.g) <= max_node_size
    /\ ~extra_exit_check(r.g)

\* the loop test of abstract_gen passes and extra_exit_check does not break;
\* the time budget lasts for MaxAttempts attempts at most
LoopRuns(r) ==
    /\ r.pc = "loop"
    /\ r.n_attempt < MaxAttempts
    /\ num_op(r.g) < max_node_size
    /\ ~extra_exit_check(r.g)

\* the generator as try_insert finds it, and as it was when the attempt began
Begun(r) == IF r.pc = "loop" THEN [r EXCEPT !.pre = r.g, !.n_attempt = @ + 1] ELSE r

\* try_insert returns: the loop of abstract_gen goes on
EndAttempt(r, g, lst, fail_run) ==
    [r EXCEPT !.g = g, !.pc = "loop", !.node_t = "", !.picks = 0,
              !.last = lst, !.fail_run = fail_run]

Crashed(r, g, lst) == [r EXCEPT !.g = g, !.pc = "crashed", !.last = lst]

Step(r, env) == [run |-> r, env |-> env]

\* determine_ph_type with a random choice for the first placeholder too
determine_ph_type_Any(g) ==
    {[g EXCEPT !.insts = [j \in DOMAIN g.insts |->
         IF \E k \in DOMAIN g.placeholders : g.placeholders[k].i = g.insts[j].id
         THEN LET k == CHOOSE i \in DOMAIN g.placeholders :
                           g.placeholders[i].i = g.insts[j].id
              IN [g.insts[j] EXCEPT !.op.name = IF to_input[k] THEN "Input" ELSE "Constant"]
         ELSE g.insts[j]]]
       : to_input \in [DOMAIN g.placeholders -> BOOLEAN]}

\* determine_ph_type over the live placeholders: the first becomes an input,
\* each other one an input or a constant
determine_ph_type(g) ==
    {[g EXCEPT !.insts = [j \in DOMAIN g.insts |->
         IF \E k \in DOMAIN g.placeholders : g.placeholders[k].i = g.insts[j].id
         THEN LET k == CHOOSE i \in DOMAIN g.placeholders :
                           g.placeholders[i].i = g.insts[j].id
              IN [g.insts[j] EXCEPT !.op.name = IF to_input[k] THEN "Input" ELSE "Constant"]
         ELSE g.insts[j]]]
       : to_input \in {f \in [DOMAIN g.placeholders -> BOOLEAN] : f[1]}}

\* abstract_gen after its loop: SanityCheck.gt(len(placeholders), 0), then
\* determine_ph_type
AfterLoop(r, why) ==
    IF \/ Len(r.g.placeholders) = 0
       \/ \E k \in DOMAIN r.g.placeholders : r.g.placeholders[k].i \notin InstIds(r.g)
    THEN {Crashed(r, r.g, Last("exit", Plain("crash")))}
    ELSE {[r EXCEPT !.g = g2, !.pc = "done", !.last = Last(why, Plain("exit"))]
             : g2 \in determine_ph_type(r.g)}

\* ------------------------------------------------------------------ the steps of a run
\* abstract_gen leaves its loop: the node count has reached max_node_size
ExitNodesSteps(r) ==
    IF r.pc = "loop" /\ num_op(r.g) >= max_node_size
    THEN {Step(x, FALSE) : x \in AfterLoop(r, "exit_nodes")} ELSE {}

\* ... or the wall clock has passed max_gen_millisec
ExitTimeSteps(r) ==
    IF r.pc = "loop" /\ num_op(r.g) < max_node_size
    THEN {Step(x, TRUE) : x \in AfterLoop(r, "exit_time")} ELSE {}

\* ... or extra_exit_check breaks the loop
ExitExtraSteps(r) ==
    IF r.pc = "loop" /\ r.n_attempt < MaxAttempts /\ num_op(r.g) < max_node_size
       /\ extra_exit_check(r.g)
    THEN {Step(x, FALSE) : x \in AfterLoop(r, "exit_extra")} ELSE {}

\* a branch that leaves symbolic_impossible as it is
Branch_Keep(outs) == outs

\* the branch of try_insert that calls an insertion of the record-assisted
\* modes: a committed insertion sets symbolic_impossible to 0
Branch(outs) ==
    {IF o.res = "ok" THEN [o EXCEPT !.g.symbolic_impossible = 0] ELSE o : o \in outs}

\* DynoFuzzR.try_insert / DynoFuzz.try_insert, the record-matched branch
try_insert_concrete(g, fwd) ==
    Branch(IF fwd THEN try_concrete_insert_forward(g) ELSE try_concrete_insert_backward(g))

\* DynoFuzz.try_insert / DynoFuzzI.try_insert, the rule-driven branch
try_insert_autoinf(g, fwd) ==
    Branch(IF fwd THEN try_autoinf_insert_forward(g) ELSE try_autoinf_insert_backward(g))

\* what a branch of try_insert leaves: a committed insertion ends the attempt,
\* a failed one falls through to the dtype test
AfterBranch(r, kind, outs) ==
    {Step(CASE o.res = "ok" -> EndAttempt(Begun(r), o.g, Last(kind, o), 0)
            [] o.res = "crash" -> Crashed(Begun(r), o.g, Last(kind, o))
            [] OTHER -> [Begun(r) EXCEPT !.g = o.g, !.pc = "base", !.last = Last(kind, o)],
          o.chk = "unknown") : o \in outs}

RecordSteps(r, fwd) ==
    IF LoopRuns(r) /\ method \in {"dynofuzz-r", "dynofuzz"}
    THEN AfterBranch(r, IF fwd THEN "record_fwd" ELSE "record_bwd",
                     try_insert_concrete(r.g, fwd))
    ELSE {}

AutoInfSteps(r, fwd) ==
    IF LoopRuns(r) /\ method \in {"dynofuzz", "dynofuzz-i"}
    THEN AfterBranch(r, IF fwd THEN "autoinf_fwd" ELSE "autoinf_bwd",
                     try_insert_autoinf(r.g, fwd))
    ELSE {}

\* the dtype test of try_insert in the record-assisted modes
DtypeImpossible(g) ==
    {g.irvars[v].dtype : v \in DOMAIN g.irvars} \cap DTYPE_GEN_ALL = {}

\* try_insert reaches BaseGen.try_insert: directly in the symbolic and concolic
\* modes, past the branches and the dtype test in the others
AtBase(r) == LoopRuns(r) \/ r.pc = "base"

DtypeSteps(r) ==
    IF AtBase(r) /\ method \in RecordModes /\ DtypeImpossible(r.g)
    THEN {Step(EndAttempt(Begun(r),
                          [r.g EXCEPT !.symbolic_impossible = @ + 1],
                          Last("dtype", Plain("fail")), r.fail_run + 1), FALSE)}
    ELSE {}

\* BaseGen.try_insert: pick_next_op_type, then try_insert_node_type begins
PickTypeSteps(r) ==
    IF AtBase(r) /\ (method \in RecordModes => ~DtypeImpossible(r.g))
    THEN {Step([Begun(r) EXCEPT !.pc = "pick", !.node_t = t, !.picks = MaxTensorPickTime,
                                !.last = Last("pick_type", Plain(""))], FALSE)
             : t \in OpTypes}
    ELSE {}

\* the operator try_insert_node_type instantiates, over fresh symbols named
\* after ir.n_inst()
NewOp(g, node_t) ==
    MkOp(node_t, [k \in 1..get_num_var_param(node_t) |-> SymT(OpSym(n_inst(g), k - 1))])

try_forward_insert_at(g, op, input_vars) ==
    IF method = "symbolic" THEN SymTryForwardInsertAt(g, op, input_vars)
    ELSE ConTryForwardInsertAt(g, op, input_vars, FALSE)

try_occupy_placeholder(g, op, phvars) ==
    IF method = "symbolic" THEN SymTryOccupyPlaceholder(g, op, phvars)
    ELSE ConTryOccupyPlaceholder(g, op, phvars, FALSE)

\* BaseGen.try_forward_insert
try_forward_insert(g, op) ==
    UNION {IF pk.raise THEN {Out(g, "dim", "none", "pick")}
           ELSE try_forward_insert_at(g, op, pk.vars)
             : pk \in pick_var_group(g, inp_ranks(op.name), in_dtypes(op.name),
                                     [v \in DOMAIN g.irvars |-> v])}

\* BaseGen.try_backward_insert
try_backward_insert(g, op) ==
    UNION {IF pk.raise THEN {Out(g, "dim", "none", "pick")}
           ELSE try_occupy_placeholder(g, op, pk.vars)
             : pk \in pick_var_group(g, out_ranks(op.name), out_dtypes(op.name),
                                     g.placeholders)}

\* one round of the loop of try_insert_node_type
PickSteps(r, fwd) ==
    IF r.pc # "pick" THEN {}
    ELSE LET op == NewOp(r.g, r.node_t)
             kind == IF fwd THEN "dialect_fwd" ELSE "dialect_bwd"
         IN {Step(CASE o.res = "crash" -> Crashed(r, o.g, Last(kind, o))
                    [] o.res = "fail" /\ r.picks > 1 ->
                         [r EXCEPT !.g = o.g, !.picks = @ - 1, !.last = Last(kind, o)]
                    [] OTHER -> EndAttempt(r, o.g, Last(kind, o), 0),
                  o.chk = "unknown")
               : o \in IF fwd THEN try_forward_insert(r.g, op)
                              ELSE try_backward_insert(r.g, op)}

\* ------------------------------------------------------------------ specification
NoTwin == [on |-> FALSE]

Init ==
    /\ method \in Methods
    /\ max_node_size \in 1..MaxNodes
    /\ run \in {InitRun(g) : g \in InitGens(method)}
    /\ twin = NoTwin
    /\ NoStage

Take(steps) == \E s \in steps : run' = s.run /\ UNCHANGED <<method, max_node_size, twin, infvars>>

ExitNodes == Take(ExitNodesSteps(run))
ExitTime == Take(ExitTimeSteps(run))
ExitExtra == Take(ExitExtraSteps(run))
RecordForward == Take(RecordSteps(run, TRUE))
RecordBackward == Take(RecordSteps(run, FALSE))
AutoInfForward == Take(AutoInfSteps(run, TRUE))
AutoInfBackward == Take(AutoInfSteps(run, FALSE))
DtypeFail == Take(DtypeSteps(run))
PickType == Take(PickTypeSteps(run))
PickForward == Take(PickSteps(run, TRUE))
PickBackward == Take(PickSteps(run, FALSE))

Next ==
    \/ ExitNodes \/ ExitTime \/ ExitExtra
    \/ RecordForward \/ RecordBackward
    \/ AutoInfForward \/ AutoInfBackward
    \/ DtypeFail \/ PickType
    \/ PickForward \/ PickBackward

Spec == Init /\ [][Next]_vars

\* ------------------------------------------------------------------ two runs
\* Two runs of model_gen on the same arguments with the same seed. run is the
\* first, twin.r the second; twin.timed says whether a run has met the wall
\* clock (the time budget of the loop, or a solver check that ended unknown).
AllSteps(r) ==
    ExitNodesSteps(r) \cup ExitTimeSteps(r) \cup ExitExtraSteps(r)
    \cup RecordSteps(r, TRUE) \cup RecordSteps(r, FALSE)
    \cup AutoInfSteps(r, TRUE) \cup AutoInfSteps(r, FALSE)
    \cup DtypeSteps(r) \cup PickTypeSteps(r)
    \cup PickSteps(r, TRUE) \cup PickSteps(r, FALSE)

\* a run without the record of its last step
Bare(r) == [r EXCEPT !.pre = EmptyGen, !.last = NoLast]

Ended(r) == r.pc \in {"done", "crashed"}

\* the draws of a seeded generator that decide nothing
SameDraws_NoSeed(s1, s2) == TRUE

\* BaseGen.__init__ calls set_seed(seed) and the constructors set_z3_state(seed):
\* from the same state the two runs draw the same random values and get the
\* same solver model, so they take the same step
SameDraws(s1, s2) == s1 = s2

TwinInit ==
    /\ method \in Methods
    /\ max_node_size \in 1..MaxNodes
    /\ run \in {Bare(InitRun(g)) : g \in InitGens(method)}
    /\ twin = [on |-> TRUE, r |-> run, timed |-> FALSE]
    /\ NoStage

\* both runs step from the same state on the same draws; a wall-clock outcome
\* they both meet is marked
TwinStep ==
    /\ run = twin.r
    /\ \E pr \in {q \in AllSteps(run) \X AllSteps(twin.r) :
                      q[1].env = q[2].env /\ SameDraws(q[1], q[2])} :
          /\ run' = Bare(pr[1].run)
          /\ twin' = [twin EXCEPT !.r = Bare(pr[2].run), !.timed = @ \/ pr[1].env]
    /\ UNCHANGED <<method, max_node_size, infvars>>

\* the time budget of the first run ends at a loop test the second run passes
TwinPart ==
    /\ run = twin.r
    /\ \E pr \in ExitTimeSteps(run) \X (AllSteps(twin.r) \ ExitTimeSteps(twin.r)) :
          /\ run' = Bare(pr[1].run)
          /\ twin' = [twin EXCEPT !.r = Bare(pr[2].run), !.timed = TRUE]
    /\ UNCHANGED <<method, max_node_size, infvars>>

\* the second run goes on after the first has ended
TwinAlone ==
    /\ Ended(run) /\ ~Ended(twin.r)
    /\ \E s2 \in AllSteps(twin.r) :
          twin' = [twin EXCEPT !.r = Bare(s2.run), !.timed = @ \/ s2.env]
    /\ UNCHANGED <<method, max_node_size, run, infvars>>

TwinNext == TwinStep \/ TwinPart \/ TwinAlone

TwinSpec == TwinInit /\ [][TwinNext]_vars

\* ------------------------------------------------------------------ properties
G == run.g
Pre == run.pre
L == run.last

Solved == {"dialect_fwd", "dialect_bwd", "autoinf_fwd", "autoinf_bwd"}
Backward == {"dialect_bwd", "autoinf_bwd", "record_bwd"}
Failed == {"fail", "dim", "cst"}

InstOf(g, id) == g.insts[find_inst_by_id(g, id)]

\* C1: in every mode every abstract tensor of the IR has at most
\* max_elem_per_tensor elements (in symbolic mode under last_solution, once
\* there is one), the initial placeholder and the tensors of record-matched
\* insertions included
C1_EveryTensorWithinCap ==
    \A v \in DOMAIN G.irvars :
        IF method = "symbolic"
        THEN G.last_solution.has =>
                 Eval(Nelement(G.irvars[v]), G.last_solution.m) <= MaxElem
        ELSE SizeOk(G.irvars[v])

\* C2: an insertion decided by the solver is committed only on sat; on unsat
\* and on unknown no instruction is appended and no constraint is asserted
C2_CommitOnlyOnSat ==
    /\ (L.kind \in Solved /\ L.res = "ok") => L.chk = "sat"
    /\ L.chk \in {"unsat", "unknown"} =>
           /\ L.res # "ok"
           /\ G.insts = Pre.insts
           /\ G.solver = Pre.solver

C2_Witness ==
    /\ method = "symbolic" /\ L.kind = "dialect_fwd" /\ L.res = "ok" /\ L.chk = "sat"
    /\ Len(G.insts) = Len(Pre.insts) + 1
    /\ Len(G.solver) > Len(Pre.solver)

\* C3 as stated: with max_nodes = 1 the returned IR is one instruction, an
\* input placeholder, and holds no compute instruction
C3_OnlyOnePlaceholder ==
    (max_node_size = 1 /\ run.pc = "done") =>
        /\ Len(G.insts) = 1
        /\ G.insts[1].op.name = "Input"
        /\ n_compute_inst(G) = 0

\* C3 amended: with max_nodes = 1 the returned IR holds at most one compute
\* instruction, exactly one when the loop ended on the node count, and at
\* least one input placeholder
C3_AtMostOneCompute ==
    (max_node_size = 1 /\ run.pc = "done") =>
        /\ n_compute_inst(G) <= 1
        /\ L.kind = "exit_nodes" => n_compute_inst(G) = 1
        /\ \E j \in DOMAIN G.insts : G.insts[j].op.name = "Input"

C3_Witness ==
    /\ max_node_size = 1 /\ run.pc = "done" /\ L.kind = "exit_nodes"
    /\ n_compute_inst(G) = 1 /\ Len(G.insts) = 2

\* C4: the number of compute instructions never passes max_nodes; a committed
\* insertion adds exactly one, and no attempt is under way once the count has
\* reached max_nodes
C4_ComputeWithinMaxNodes ==
    /\ n_compute_inst(G) <= max_node_size
    /\ L.res = "ok" => n_compute_inst(G) = n_compute_inst(Pre) + 1
    /\ run.pc \in {"base", "pick"} => n_compute_inst(G) < max_node_size

C4_Witness ==
    /\ max_node_size = 2 /\ n_compute_inst(G) = 2 /\ L.res = "ok" /\ run.pc = "loop"

\* C5: in the record-assisted modes symbolic_impossible is the number of
\* attempts in a row, up to now, that ended on the dtype test, and the loop
\* leaves through extra_exit_check only after max_nodes of them
C5_ImpossibleCountsTheRun ==
    method \in RecordModes =>
        /\ G.symbolic_impossible = run.fail_run
        /\ L.kind = "exit_extra" => run.fail_run >= max_node_size

C5_Witness ==
    /\ method \in RecordModes /\ max_node_size = 2
    /\ L.kind = "exit_extra" /\ run.fail_run = 2

\* the instruction a committed insertion appended last
NewInst == G.insts[Len(G.insts)]

BackwardDone == L.kind \in Backward /\ L.res = "ok"

\* C7: after a committed backward insertion over the placeholders P, every
\* variable of P is out of the live list and its instruction out of the IR,
\* every use P[j] had is a use of the j-th return value of the new
\* instruction, and one fresh placeholder per operator input is in the IR and
\* in the live list
C7_BackwardInsertionEffects ==
    BackwardDone =>
        /\ \A j \in DOMAIN L.phs :
              /\ L.phs[j] \notin Range(G.placeholders)
              /\ L.phs[j].i \notin InstIds(G)
              /\ L.phs[j] \notin DOMAIN G.irvars
              /\ L.phs[j] \notin UsedVars(G)
        /\ \A a \in DOMAIN Pre.insts : \A k \in DOMAIN Pre.insts[a].args :
              \A j \in DOMAIN L.phs :
                  Pre.insts[a].args[k] = L.phs[j] =>
                      /\ Pre.insts[a].id \in InstIds(G)
                      /\ InstOf(G, Pre.insts[a].id).args[k] = Var(NewInst.id, j - 1)
        /\ NewInst.nret >= Len(L.phs)
        /\ \A k \in DOMAIN NewInst.args :
              /\ NewInst.args[k] \notin DOMAIN Pre.irvars
              /\ NewInst.args[k] \in Range(G.placeholders)
              /\ NewInst.args[k].i \in InstIds(G)
              /\ InstOf(G, NewInst.args[k].i).op.name = "Placeholder"
              /\ \A h \in DOMAIN NewInst.args : h # k => NewInst.args[h] # NewInst.args[k]
        /\ Len(G.placeholders) = Len(Pre.placeholders) - Len(L.phs) + Len(NewInst.args)
        /\ Len(G.insts) = Len(Pre.insts) - Len(L.phs) + Len(NewInst.args) + 1

\* two placeholders, both in use, occupied by an operator with two outputs
C7_Witness ==
    /\ BackwardDone /\ Len(L.phs) = 2
    /\ \A j \in DOMAIN L.phs : L.phs[j] \in UsedVars(Pre)
    /\ \E a \in DOMAIN G.insts : Var(NewInst.id, 1) \in Range(G.insts[a].args)

\* C8: when abstract_gen has returned, every live placeholder belongs to an
\* instruction that is a graph input or a constant, the first to an input, and
\* no instruction is an undetermined placeholder
C8_PlaceholdersDetermined ==
    run.pc = "done" =>
        /\ \A k \in DOMAIN G.placeholders :
              /\ G.placeholders[k].i \in InstIds(G)
              /\ InstOf(G, G.placeholders[k].i).op.name \in {"Input", "Constant"}
        /\ Len(G.placeholders) > 0
        /\ InstOf(G, G.placeholders[1].i).op.name = "Input"
        /\ \A j \in DOMAIN G.insts : G.insts[j].op.name # "Placeholder"

C8_Witness ==
    /\ run.pc = "done" /\ Len(G.placeholders) = 2
    /\ InstOf(G, G.placeholders[1].i).op.name = "Input"
    /\ InstOf(G, G.placeholders[2].i).op.name = "Constant"

AutoInfDone == L.conc # NoConc

\* C10 as stated: concretize_op_autoinf gives an attribute the model does not
\* bind a strictly positive integer, and a bound one the model's value
C10_UnboundStrictlyPositive ==
    AutoInfDone =>
        \A j \in DOMAIN L.conc.op.params :
            IF Bound(L.conc.op.params[j], L.conc.m)
            THEN L.conc.cop.params[j] = Conc(Eval(L.conc.op.params[j], L.conc.m))
            ELSE IsConc(L.conc.cop.params[j]) /\ L.conc.cop.params[j].c > 0

\* C10 amended: an attribute the model does not bind becomes an integer of
\* randint's range, 0 included; a bound one takes the model's value
C10_UnboundWithinRandint ==
    AutoInfDone =>
        \A j \in DOMAIN L.conc.op.params :
            IF Bound(L.conc.op.params[j], L.conc.m)
            THEN L.conc.cop.params[j] = Conc(Eval(L.conc.op.params[j], L.conc.m))
            ELSE IsConc(L.conc.cop.params[j]) /\ L.conc.cop.params[j].c \in RandAttr

C10_Witness ==
    /\ AutoInfDone /\ L.res = "ok"
    /\ Bound(L.conc.op.params[1], L.conc.m) /\ L.conc.cop.params[1].c = 2
    /\ ~Bound(L.conc.op.params[2], L.conc.m) /\ L.conc.cop.params[2].c = 0

BothReturned == twin.on /\ run.pc = "done" /\ twin.r.pc = "done"

MaxInputLen == 3
MaxOutputLen == 2
MaxVal == 2
\* TreeMaxHeight and TreeArgCount of configs.py, scaled down
TreeMaxHeight == 1
TreeArgCount == 2

\* ------------------------------------------------------------------ expression trees
\* DUMMY_CONST of configs.py: the literal leaves
DUMMY_CONST == {1, 2}

Const(c) == [t |-> "k", v |-> c]
\* the leaf that reads argument i (0-based) of the value list
Arg(i) == [t |-> "s", v |-> i]

\* a tree of height at most 1: a leaf (op "None"), or op over two leaves
LeafTree(x) == [op |-> "None", l |-> x, r |-> x]
ArithExpTree(op, l, r) == [op |-> op, l |-> l, r |-> r]

Height(tree) == IF tree.op = "None" THEN 0 ELSE 1

LeafArgs(x) == IF x.t = "s" THEN {x.v} ELSE {}
\* the bitmask of a tree, as the set of its argument positions
ArgSet(tree) == LeafArgs(tree.l) \cup LeafArgs(tree.r)
popcount(S) == Cardinality(S)

\* val is the list of argument values (val[i + 1] is argument i)
LeafValue(x, val) == IF x.t = "s" THEN val[x.v + 1] ELSE x.v

evaluate(tree, val) ==
    CASE tree.op = "None" -> LeafValue(tree.l, val)
      [] tree.op = "+" -> LeafValue(tree.l, val) + LeafValue(tree.r, val)
      [] tree.op = "-" -> LeafValue(tree.l, val) - LeafValue(tree.r, val)
      [] tree.op = "*" -> LeafValue(tree.l, val) * LeafValue(tree.r, val)

\* the trees of the cache in the order genTreeList yields them: by height,
\* then by popcount of the bitmask, then by insertion
TreeList ==
    << LeafTree(Const(1)), LeafTree(Const(2)),
       LeafTree(Arg(0)),
       ArithExpTree("+", Arg(0), Const(1)),
       ArithExpTree("-", Arg(0), Const(1)),
       ArithExpTree("*", Arg(0), Const(2)),
       ArithExpTree("+", Arg(0), Arg(1)),
       ArithExpTree("-", Arg(0), Arg(1)),
       ArithExpTree("-", Arg(1), Arg(0)),
       ArithExpTree("*", Arg(0), Arg(1)) >>

TreeOk(tree, maxHeight, argCount) ==
    Height(tree) <= maxHeight /\ ArgSet(tree) \subseteq 0..(argCount - 1)

genTreeList(maxHeight, argCount) ==
    SelectSeq(TreeList, LAMBDA tree : TreeOk(tree, maxHeight, argCount))

\* gen_sym_set((1 << lim) - 1, count): the size-count subsets of 0..lim-1 in
\* the order of dfs, each as the increasing list mask_to_list gives
RECURSIVE dfs(_, _, _)
RECURSIVE dfsFrom(_, _, _, _)
dfs(symlist, count, lim) ==
    IF Len(symlist) = count THEN <<symlist>>
    ELSE dfsFrom(IF symlist = <<>> THEN 0 ELSE symlist[Len(symlist)] + 1, symlist, count, lim)
dfsFrom(nxt, symlist, count, lim) ==
    IF nxt >= lim THEN <<>>
    ELSE dfs(Append(symlist, nxt), count, lim) \o dfsFrom(nxt + 1, symlist, count, lim)

gen_sym_set(lim, count) == dfs(<<>>, count, lim)

\* the display of the tree, its arguments left as they are
remap_display(tree, index) == tree

\* remap(tree.display(), index): argument i of the tree becomes symbol s<index[i]>
RemapLeaf(x, index) == IF x.t = "s" THEN Arg(index[x.v + 1]) ELSE x
remap(tree, index) == [op |-> tree.op, l |-> RemapLeaf(tree.l, index), r |-> RemapLeaf(tree.r, index)]

\* the values of the symbols of sym_list in an input tuple
ValOf(inputs, sym_list) == [a \in DOMAIN sym_list |-> inputs[sym_list[a] + 1]]

\* a rule string evaluated on an input tuple
EvalRule(rule, inputs) == evaluate(rule, inputs)

\* ------------------------------------------------------------------ invocation DB
\* the largest number of success records, and of fail records, of a DB
MaxSuccess == 2
MaxFail == 1

Vals == 0..MaxVal
\* a fail tuple may hold the -2 that mutate probes attributes with
FailVals == Vals \cup {-2}

InputTuples(n) == [1..n -> Vals]
FailTuples(n) == [1..n -> FailVals]
\* the recorded output shapes are positive
OutputTuples == UNION {[1..k -> 1..MaxVal] : k \in 1..MaxOutputLen}

\* a success record is (inputs, outputs)
SuccessRecords(n) == InputTuples(n) \X OutputTuples

\* the subsets of S with at most hi elements, and those with lo..hi
RECURSIVE UpTo(_, _)
UpTo(S, hi) == IF hi = 0 THEN {{}} ELSE {{}} \cup {x \cup {a} : x \in UpTo(S, hi - 1), a \in S}
SmallSubsets(S, lo, hi) == {x \in UpTo(S, hi) : Cardinality(x) >= lo}

\* OpDatabase.__init__ with a DB file: the two sets, nothing analysed yet
OpDatabase(success, fail) ==
    [success |-> success, fail |-> fail, aliases |-> <<>>, related |-> <<>>, unrelated |-> <<>>]

\* the invocation DBs of an operator instance with n input symbols, with at
\* most maxfail fail tuples
DBs(n, maxfail) ==
    {OpDatabase(s, f) : s \in SmallSubsets(SuccessRecords(n), 1, MaxSuccess),
                        f \in SmallSubsets(FailTuples(n), 0, maxfail)}

\* len(record_list[0][0]): a valid DB gives every success record the same arity
InputLen(db) == Len((CHOOSE rec \in db.success : TRUE)[1])

MaxOf(S) == CHOOSE x \in S : \A y \in S : y <= x
OutputLen(db) == MaxOf({Len(rec[2]) : rec \in db.success})

\* OpDatabase.check_duplicate_sym: the subset holds both symbols of an alias
check_duplicate_sym(db, sym_list) ==
    \E a \in DOMAIN db.aliases :
        db.aliases[a][1] \in Range(sym_list) /\ db.aliases[a][2] \in Range(sym_list)

\* the pairs i < j analyze_symbol lists: equal on every success record
AliasPair_Some(db, pr) == \E rec \in db.success : rec[1][pr[1] + 1] = rec[1][pr[2] + 1]
AliasPair(db, pr) == \A rec \in db.success : rec[1][pr[1] + 1] = rec[1][pr[2] + 1]

\* compare_array_diff: the positions at which two input tuples differ
compare_array_diff(x, y) == {j \in 0..(Len(x) - 1) : x[j + 1] # y[j + 1]}

DiffPairs(db, k, most) ==
    {q \in db.success \X db.success :
        /\ k < Min(Len(q[1][2]), Len(q[2][2]))
        /\ Cardinality(compare_array_diff(q[1][1], q[2][1])) \in 1..most}

RelatedAt(db, k) ==
    UNION {compare_array_diff(q[1][1], q[2][1]) :
              q \in {x \in DiffPairs(db, k, 3) : x[1][2][k + 1] # x[2][2][k + 1]}}

UnrelatedAt(db, k) ==
    UNION {compare_array_diff(q[1][1], q[2][1]) :
              q \in {x \in DiffPairs(db, k, 1) : x[1][2][k + 1] = x[2][2][k + 1]}}

\* OpDatabase.analyze_symbol
analyze_symbol(db) ==
    [db EXCEPT !.aliases = SelectSeq(gen_sym_set(InputLen(db), 2), LAMBDA pr : AliasPair(db, pr)),
               !.related = [k \in 1..OutputLen(db) |-> RelatedAt(db, k - 1)],
               !.unrelated = [k \in 1..OutputLen(db) |-> UnrelatedAt(db, k - 1)]]

\* ------------------------------------------------------------------ rule files
Absent == [st |-> "absent", data |-> <<>>]
\* a complete file an earlier run of the stage left
Previous == [st |-> "previous", data |-> <<>>]
\* open(name, "wb") has created or truncated the file; the dump is not done
Partial == [st |-> "partial", data |-> <<>>]
Complete(data) == [st |-> "complete", data |-> data]

FileNames == {"InvocDB", "IO_rules", "input_rules", "nnsmith_rules", "rule_validity"}
NoFiles == [f \in FileNames |-> Absent]

\* ------------------------------------------------------------------ shape-rule synthesiser
\* the N of the spec's "at most N=10" (rule_count >= 10 of RuleDatabase.Add), scaled down
MaxRulesPerOutput == 2

\* haszero: a symbol of the subset is <= 0 in the record
haszero(rec, sym_list) == \E a \in DOMAIN sym_list : rec[1][sym_list[a] + 1] <= 0

\* the records the validity loop of solve_inst tests for output o_id
Tested(rec, o_id, sym_list, zerofilter) ==
    /\ o_id < Len(rec[2])
    /\ ~zerofilter \/ ~haszero(rec, sym_list)

\* valid and at_least_one_record
ValidTree(db, tree, sym_list, o_id, zerofilter) ==
    /\ \A rec \in db.success :
          Tested(rec, o_id, sym_list, zerofilter) =>
              evaluate(tree, ValOf(rec[1], sym_list)) = rec[2][o_id + 1]
    /\ \E rec \in db.success : Tested(rec, o_id, sym_list, zerofilter)

TreeEntry(tree, sym_list) == [rank |-> FALSE, tree |-> tree, sym_list |-> sym_list]
\* (input_len, input_len), the rank fallback
RankEntry(n) == [rank |-> TRUE, tree |-> LeafTree(Const(n)), sym_list |-> <<>>]

\* the (tree, sym_set) pairs one tree adds for an output that has none yet
SymSetsOf(db, tree, o_id, zerofilter) ==
    SelectSeq(gen_sym_set(InputLen(db), popcount(ArgSet(tree))),
              LAMBDA sym_list : /\ ~check_duplicate_sym(db, sym_list)
                                /\ ValidTree(db, tree, sym_list, o_id, zerofilter))

TreeEntries(db, tree, o_id, zerofilter) ==
    LET ok == SymSetsOf(db, tree, o_id, zerofilter)
    IN [a \in DOMAIN ok |-> TreeEntry(tree, ok[a])]

\* the pass without the test that skips an output that has a rule
TryTreeOn_Append(db, w, tree) ==
    [k \in DOMAIN w.valid_tree_set |->
        w.valid_tree_set[k] \o TreeEntries(db, tree, k - 1, w.cfg_zerofilter)]

\* one pass of the tree loop over the outputs
TryTreeOn(db, w, tree) ==
    [k \in DOMAIN w.valid_tree_set |->
        IF Len(w.valid_tree_set[k]) >= 1 THEN w.valid_tree_set[k]
        ELSE TreeEntries(db, tree, k - 1, w.cfg_zerofilter)]

ShapeTrees(db) == genTreeList(TreeMaxHeight, Min(InputLen(db), TreeArgCount))

\* happen: some output still has no rule
happen(w) == \E k \in DOMAIN w.valid_tree_set : Len(w.valid_tree_set[k]) = 0

\* one iteration of the loop of solve_inst; timed says that the budget
\* (timeout = 100 s) has expired at the test that ends the iteration
ShapeLoopStep(db, w, timed) ==
    LET trees == ShapeTrees(db)
        tried == [w EXCEPT !.tree_tried = @ + 1]
    IN IF ~happen(w) THEN [tried EXCEPT !.pc = "finish"]
       ELSE [tried EXCEPT !.valid_tree_set = TryTreeOn(db, w, trees[w.next]),
                          !.next = @ + 1,
                          !.timed_out = timed,
                          !.pc = IF timed \/ w.next = Len(trees) THEN "finish" ELSE "trees"]

\* the rank fallback: every record that has the output gives it the value input_len
RankValid(db, o_id) ==
    \A rec \in db.success : o_id < Len(rec[2]) => rec[2][o_id + 1] = InputLen(db)

InputRank(db, vts) ==
    [k \in DOMAIN vts |->
        IF Len(vts[k]) >= 1 THEN vts[k]
        ELSE IF RankValid(db, k - 1) THEN <<RankEntry(InputLen(db))>> ELSE <<>>]

\* the rule string of an entry: str(tree) of the fallback, else the remapped display
RuleOf(e) == IF e.rank THEN e.tree ELSE remap(e.tree, e.sym_list)

OutputRules(vts, tree_tried) ==
    [k \in DOMAIN vts |->
        [o_id |-> k - 1, rule_count |-> Len(vts[k]), tree_tried |-> tree_tried,
         rules |-> [a \in DOMAIN vts[k] |-> RuleOf(vts[k][a])]]]

\* rule_info of a synthesis that drops its rules when the budget has expired
RuleInfo_DropOnTimeout(db, w) ==
    [output_rank |-> Len(db.unrelated),
     invocation_count |-> Cardinality(db.success),
     output_rules |-> OutputRules(IF w.timed_out THEN [k \in DOMAIN w.valid_tree_set |-> <<>>]
                                  ELSE InputRank(db, w.valid_tree_set), w.tree_tried)]

RuleInfo(db, w) ==
    [output_rank |-> Len(db.unrelated),
     invocation_count |-> Cardinality(db.success),
     output_rules |-> OutputRules(InputRank(db, w.valid_tree_set), w.tree_tried)]

\* ------------------------------------------------------------------ the shape-rule stage
\* the generator is not running
NoGenerator == method = "none" /\ max_node_size = 0 /\ run = <<>> /\ twin = NoTwin

\* __main__ of symbl_int_solve.py has loaded the DB of one operator; the
\* zero filter is a switch of the configuration
ShapeWorker(zerofilter) ==
    [stage |-> "shape", pc |-> "analyze", cfg_zerofilter |-> zerofilter,
     next |-> 1, tree_tried |-> 0, valid_tree_set |-> <<>>, timed_out |-> FALSE,
     rule_info |-> <<>>]

ShapeInit ==
    /\ NoGenerator
    /\ \E n \in 1..MaxInputLen : OpDB \in DBs(n, 0)
    /\ worker \in {ShapeWorker(z) : z \in BOOLEAN}
    /\ fs \in {[NoFiles EXCEPT !.IO_rules = f] : f \in {Absent, Previous}}

\* OpDB.analyze_symbol(), then solve_inst starts with no tree for any output
AnalyzeSymbol ==
    /\ worker.stage = "shape" /\ worker.pc = "analyze"
    /\ OpDB' = analyze_symbol(OpDB)
    /\ worker' = [worker EXCEPT !.pc = "trees",
                                !.valid_tree_set = [k \in 1..OutputLen(OpDB) |-> <<>>]]
    /\ UNCHANGED <<genvars, fs>>

ShapeTryTree ==
    /\ worker.stage = "shape" /\ worker.pc = "trees"
    /\ worker' = ShapeLoopStep(OpDB, worker, FALSE)
    /\ UNCHANGED <<genvars, OpDB, fs>>

\* the same iteration, ending after the budget has expired
ShapeTimeout ==
    /\ worker.stage = "shape" /\ worker.pc = "trees" /\ happen(worker)
    /\ worker' = ShapeLoopStep(OpDB, worker, TRUE)
    /\ UNCHANGED <<genvars, OpDB, fs>>

\* the rank fallback, rule_info, and open(f"{IORuleDir}/{filename}", "wb")
ShapeOpen ==
    /\ worker.stage = "shape" /\ worker.pc = "finish"
    /\ worker' = [worker EXCEPT !.pc = "writing", !.rule_info = RuleInfo(OpDB, worker)]
    /\ fs' = [fs EXCEPT !.IO_rules = Partial]
    /\ UNCHANGED <<genvars, OpDB>>

\* pickle.dump(rule_info, f) and the close of the file
ShapeDump ==
    /\ worker.stage = "shape" /\ worker.pc = "writing"
    /\ worker' = [worker EXCEPT !.pc = "done"]
    /\ fs' = [fs EXCEPT !.IO_rules = Complete(worker.rule_info)]
    /\ UNCHANGED <<genvars, OpDB>>

\* the worker process dies between the open and the end of the dump
WorkerCrash ==
    /\ worker.pc = "writing"
    /\ worker' = [worker EXCEPT !.pc = "crashed"]
    /\ UNCHANGED <<genvars, OpDB, fs>>

ShapeNext ==
    \/ AnalyzeSymbol
    \/ ShapeTryTree \/ ShapeTimeout
    \/ ShapeOpen \/ ShapeDump
    \/ WorkerCrash

ShapeSpec == ShapeInit /\ [][ShapeNext]_vars

\* ------------------------------------------------------------------ properties of the shape-rule stage
ShapeStage == worker # <<>> /\ worker.stage = "shape"
Analyzed == ShapeStage /\ worker.pc # "analyze"
ShapeFileDone == ShapeStage /\ worker.pc = "done" /\ fs.IO_rules.st = "complete"

\* the rules written for each output index
WrittenRules == fs.IO_rules.data.output_rules

\* the pairs i < j of input symbols that are equal on every success record
EqualPairs ==
    {pr \in (0..(InputLen(OpDB) - 1)) \X (0..(InputLen(OpDB) - 1)) :
        /\ pr[1] < pr[2]
        /\ \A rec \in OpDB.success : rec[1][pr[1] + 1] = rec[1][pr[2] + 1]}

\* C16: after analyze_symbol, aliases lists exactly the pairs i < j of input
\* symbols whose values are equal on every success record
C16_AliasesExact == Analyzed => Range(OpDB.aliases) = EqualPairs

C16_Witness ==
    /\ Analyzed /\ InputLen(OpDB) = 3 /\ Cardinality(OpDB.success) = 2
    /\ OpDB.aliases = << <<0, 2>> >>

\* C11 as stated: every rule written for output index k, evaluated on the
\* inputs of any success record, equals that record's k-th output, records
\* with a value <= 0 or with fewer than k+1 outputs included
C11_RulePredictsEveryRecord ==
    ShapeFileDone =>
        \A k \in DOMAIN WrittenRules : \A a \in DOMAIN WrittenRules[k].rules :
            \A rec \in OpDB.success :
                /\ k <= Len(rec[2])
                /\ EvalRule(WrittenRules[k].rules[a], rec[1]) = rec[2][k]

\* the records a rule for output index k (1-based) was not tested on
Exempt(rec, rule, k) ==
    \/ k > Len(rec[2])
    \/ worker.cfg_zerofilter /\ \E i \in ArgSet(rule) : rec[1][i + 1] <= 0

\* C11 amended: a written rule equals the k-th output on every success record
\* that has a k-th output and, under the zero filter, only positive values in
\* the rule's symbols; there is at least one such record
C11_RulePredictsTestedRecords ==
    ShapeFileDone =>
        \A k \in DOMAIN WrittenRules : \A a \in DOMAIN WrittenRules[k].rules :
            LET rule == WrittenRules[k].rules[a]
            IN /\ \A rec \in OpDB.success :
                      ~Exempt(rec, rule, k) => EvalRule(rule, rec[1]) = rec[2][k]
               /\ \E rec \in OpDB.success : ~Exempt(rec, rule, k)

\* a rule over the second symbol was written, one record was skipped for a
\* zero and mispredicted, another was tested
C11_Witness ==
    /\ ShapeFileDone /\ worker.cfg_zerofilter
    /\ WrittenRules[1].rules # <<>>
    /\ WrittenRules[1].rules[1] = LeafTree(Arg(1))
    /\ \E rec \in OpDB.success :
          rec[1][2] = 0 /\ EvalRule(WrittenRules[1].rules[1], rec[1]) # rec[2][1]
    /\ \E rec \in OpDB.success : rec[1][2] > 0

\* C15 as stated: the rules list of every output index has at most N entries
C15_AtMostNRules ==
    ShapeFileDone =>
        \A k \in DOMAIN WrittenRules : Len(WrittenRules[k].rules) <= MaxRulesPerOutput

\* C19 as stated: no partially written file is ever visible under its final
\* name, so a crashed worker leaves no file, or a complete one
C19_NoPartialFileVisible ==
    \A f \in FileNames : fs # <<>> => fs[f].st # "partial"

\* ------------------------------------------------------------------ input-constraint synthesiser
\* the 50 of RuleDatabase.Add and of solve_inst, scaled down
MaxRuleset == 2
\* the most input symbols, and the largest input value, of a DB the
\* constraint stage reads
MaxConstrInputLen == 2
MaxConstrVal == 3
\* equivalent() decides over the integers; here over -MaxAbs..MaxAbs
MaxAbs == 5

Signs == <<"==", ">", ">=">>

\* eval(f"tree.evaluate(val) {sign} 0")
Rel(x, sign) ==
    CASE sign = "==" -> x = 0
      [] sign = ">" -> x > 0
      [] sign = ">=" -> x >= 0

Rule(rule, sign) == [rule |-> rule, sign |-> sign]

\* the z3 formula of a rule under an assignment of s0..s(argCount-1)
RuleHolds(r, asg) == Rel(EvalRule(r.rule, asg), r.sign)

Assignments(argCount) == [1..argCount -> (-MaxAbs)..MaxAbs]

\* equivalent(And(rules of rs), And(rules of rs but the one at position i))
Droppable(rs, i, argCount) ==
    \A asg \in Assignments(argCount) :
        (\A j \in DOMAIN rs : j # i => RuleHolds(rs[j], asg)) => RuleHolds(rs[i], asg)

\* list.remove: the first element equal to item goes
RECURSIVE RemoveFirst(_, _)
RemoveFirst(rs, item) ==
    IF rs = <<>> THEN <<>>
    ELSE IF Head(rs) = item THEN Tail(rs)
    ELSE <<Head(rs)>> \o RemoveFirst(Tail(rs), item)

\* range(len(self.ruleset) - 1, 0, -1): every position but the first
PrunePositions(rs) == 2..Len(rs)

\* the while loop of Add: the last droppable position examined is removed,
\* until none is droppable
RECURSIVE Prune(_, _)
Prune(rs, argCount) ==
    LET found == {i \in PrunePositions(rs) : Droppable(rs, i, argCount)}
    IN IF found = {} THEN rs
       ELSE CHOOSE out \in {Prune(v, argCount) : v \in {RemoveFirst(rs, rs[MaxOf(found)])}} : TRUE

\* if len(self.ruleset) > 50: return
AddRefused(rs) == Len(rs) > MaxRuleset

\* RuleDatabase.Add
Add(rs, rule, sign, argCount) ==
    IF AddRefused(rs) THEN rs
    ELSE CHOOSE out \in {Prune(v, argCount) : v \in {Append(rs, Rule(rule, sign))}} : TRUE

\* inspect_all_records without the fail records
inspect_all_records_success_only(valid_list, invalid_list, sym_list, tree, sign) ==
    \A inputs \in valid_list : Rel(evaluate(tree, ValOf(inputs, sym_list)), sign)

inspect_all_records(valid_list, invalid_list, sym_list, tree, sign) ==
    /\ \A inputs \in valid_list : Rel(evaluate(tree, ValOf(inputs, sym_list)), sign)
    /\ \/ sign = "=="
       \/ \E inputs \in invalid_list : ~Rel(evaluate(tree, ValOf(inputs, sym_list)), sign)

\* valid_list and invalid_list of solve_inst
valid_list(db) == {rec[1] : rec \in db.success}
invalid_list(db) == db.fail

\* the constant constraint test: s<i>-<val> == 0 for every constant symbol
IsConstant(db, i) == \A x \in valid_list(db), y \in valid_list(db) : x[i + 1] = y[i + 1]
ConstantRule(db, i) ==
    ArithExpTree("-", Arg(i), Const((CHOOSE x \in valid_list(db) : TRUE)[i + 1]))

RECURSIVE Constants(_, _, _)
Constants(db, rs, i) ==
    IF i >= InputLen(db) THEN rs
    ELSE Constants(db,
                   IF IsConstant(db, i) THEN Add(rs, ConstantRule(db, i), "==", InputLen(db)) ELSE rs,
                   i + 1)

\* sign_list: all three relations for a tree of depth <= 1, else equality only
sign_list(tree) == IF Height(tree) <= 1 THEN Signs ELSE <<"==">>

\* the signs tried on one symbol subset, in order
RECURSIVE TrySigns(_, _, _, _, _)
TrySigns(db, rs, tree, sym_list, s) ==
    IF s > Len(sign_list(tree)) THEN rs
    ELSE CHOOSE out \in
            {TrySigns(db, v, tree, sym_list, s + 1) :
                v \in {IF inspect_all_records(valid_list(db), invalid_list(db), sym_list, tree,
                                              sign_list(tree)[s])
                       THEN Add(rs, remap(tree, sym_list), sign_list(tree)[s], InputLen(db))
                       ELSE rs}} : TRUE

\* the symbol subsets tried on one tree, in order
RECURSIVE TrySymSets(_, _, _, _)
TrySymSets(db, rs, tree, sets) ==
    IF sets = <<>> THEN rs
    ELSE CHOOSE out \in
            {TrySymSets(db, v, tree, Tail(sets)) : v \in {TrySigns(db, rs, tree, Head(sets), 1)}} : TRUE

ConstrTrees(db) == genTreeList(TreeMaxHeight, Min(InputLen(db), TreeArgCount))

\* one iteration of the tree loop of solve_inst; timed: the budget has expired
ConstrLoopStep(db, w, timed) ==
    LET trees == ConstrTrees(db)
        tree == trees[w.next]
        tried == [w EXCEPT !.tree_tried = @ + 1, !.next = @ + 1]
        last == w.next = Len(trees)
    IN IF timed THEN [tried EXCEPT !.pc = "finish", !.timed_out = TRUE]
       ELSE IF tree.op \notin {"+", "-", "None"}
            THEN [tried EXCEPT !.pc = IF last THEN "finish" ELSE "trees"]
       ELSE LET rs == TrySymSets(db, w.ruleset, tree,
                                 gen_sym_set(InputLen(db), popcount(ArgSet(tree))))
            IN [tried EXCEPT !.ruleset = rs,
                             !.pc = IF last \/ Len(rs) >= MaxRuleset THEN "finish" ELSE "trees"]

\* dd of solve_inst, but its time
ConstrFile(w) ==
    [rules |-> [a \in DOMAIN w.ruleset |-> <<w.ruleset[a].rule, w.ruleset[a].sign>>],
     tree_tried |-> w.tree_tried]

\* ------------------------------------------------------------------ the input-constraint stage
ConstrInputs(n) == [1..n -> 0..MaxConstrVal]
ConstrFails(n) == [1..n -> (0..MaxConstrVal) \cup {-2}]

\* info of solve_inst: the DB file of an operator, as solve() has loaded it
ConstrDBs(n) ==
    {OpDatabase({<<x, <<1>>>> : x \in s}, f) :
        s \in SmallSubsets(ConstrInputs(n), 1, MaxSuccess),
        f \in SmallSubsets(ConstrFails(n), 0, MaxFail)}

ConstrWorker ==
    [stage |-> "constr", pc |-> "constants", next |-> 1, tree_tried |-> 0,
     ruleset |-> <<>>, timed_out |-> FALSE, dd |-> <<>>]

ConstrInit ==
    /\ NoGenerator
    /\ \E n \in 1..MaxConstrInputLen : OpDB \in ConstrDBs(n)
    /\ worker = ConstrWorker
    /\ fs \in {[NoFiles EXCEPT !.input_rules = f] : f \in {Absent, Previous}}

\* RuleDB = RuleDatabase(input_len) and the constant constraint test
ConstrConstants ==
    /\ worker.stage = "constr" /\ worker.pc = "constants"
    /\ worker' = [worker EXCEPT !.ruleset = Constants(OpDB, <<>>, 0), !.pc = "trees"]
    /\ UNCHANGED <<genvars, OpDB, fs>>

ConstrTryTree ==
    /\ worker.stage = "constr" /\ worker.pc = "trees"
    /\ worker' = ConstrLoopStep(OpDB, worker, FALSE)
    /\ UNCHANGED <<genvars, OpDB, fs>>

\* the budget has expired at the head of the iteration
ConstrTimeout ==
    /\ worker.stage = "constr" /\ worker.pc = "trees"
    /\ worker' = ConstrLoopStep(OpDB, worker, TRUE)
    /\ UNCHANGED <<genvars, OpDB, fs>>

\* dd, and open(f"{InRuleDir}/{filename}", "wb")
ConstrOpen ==
    /\ worker.stage = "constr" /\ worker.pc = "finish"
    /\ worker' = [worker EXCEPT !.pc = "writing", !.dd = ConstrFile(worker)]
    /\ fs' = [fs EXCEPT !.input_rules = Partial]
    /\ UNCHANGED <<genvars, OpDB>>

\* pickle.dump(dd, f) and the close of the file
ConstrDump ==
    /\ worker.stage = "constr" /\ worker.pc = "writing"
    /\ worker' = [worker EXCEPT !.pc = "done"]
    /\ fs' = [fs EXCEPT !.input_rules = Complete(worker.dd)]
    /\ UNCHANGED <<genvars, OpDB>>

ConstrNext ==
    \/ ConstrConstants
    \/ ConstrTryTree \/ ConstrTimeout
    \/ ConstrOpen \/ ConstrDump
    \/ WorkerCrash

ConstrSpec == ConstrInit /\ [][ConstrNext]_vars

\* ------------------------------------------------------------------ properties of the input-constraint stage
ConstrStage == worker # <<>> /\ worker.stage = "constr"
ConstrFileDone == ConstrStage /\ worker.pc = "done" /\ fs.input_rules.st = "complete"

\* the (expression, relation) pairs of the file
WrittenConstraints == fs.input_rules.data.rules

Strict(sign) == sign \in {">", ">="}

\* C12: every rule (e, rel) written holds on every success record, and a
\* rule with > or >= is false on at least one record of the fail set
C12_RuleHoldsAndSeparates ==
    ConstrFileDone =>
        \A a \in DOMAIN WrittenConstraints :
            LET e == WrittenConstraints[a][1]
                rel == WrittenConstraints[a][2]
            IN /\ \A rec \in OpDB.success : Rel(EvalRule(e, rec[1]), rel)
               /\ Strict(rel) => \E inputs \in OpDB.fail : ~Rel(EvalRule(e, inputs), rel)

\* a constant rule, and a strict rule over the second symbol, are in the file
C12_Witness ==
    /\ ConstrFileDone /\ OpDB.fail # {}
    /\ \E a \in DOMAIN WrittenConstraints :
          WrittenConstraints[a] = <<ArithExpTree("-", Arg(0), Const(2)), "==">>
    /\ \E a \in DOMAIN WrittenConstraints :
          WrittenConstraints[a][2] = ">" /\ ArgSet(WrittenConstraints[a][1]) = {1}

\* C13 as stated: after any sequence of Add calls no rule of the set, the
\* first included, is implied by the others
C13_RulesetMinimal ==
    ConstrStage =>
        \A i \in DOMAIN worker.ruleset : ~Droppable(worker.ruleset, i, InputLen(OpDB))

\* C14 as stated: the rule set never holds more than the cap of rules, and
\* neither does the file
C14_RulesetWithinCap ==
    ConstrStage =>
        /\ Len(worker.ruleset) <= MaxRuleset
        /\ fs.input_rules.st = "complete" => Len(WrittenConstraints) <= MaxRuleset

\* C18 as stated: a strict rule is admitted only on the evidence of a fail
\* record whose values are all non-negative
C18_EvidenceNonNegative ==
    ConstrFileDone =>
        \A a \in DOMAIN WrittenConstraints :
            Strict(WrittenConstraints[a][2]) =>
                \E inputs \in OpDB.fail :
                    /\ \A j \in DOMAIN inputs : inputs[j] >= 0
                    /\ ~Rel(EvalRule(WrittenConstraints[a][1], inputs), WrittenConstraints[a][2])

\* ------------------------------------------------------------------ dialect matcher
\* ATTR_FREE_RULES: the registry of hand-written rule classes, here two
\* element-wise unary classes with the same rules and the broadcasting
\* binary class; all tensors have rank 1
RuleClass(name, n_input, n_output, kind) ==
    [name |-> name, n_input |-> n_input, n_output |-> n_output, kind |-> kind]

ATTR_FREE_RULES ==
    << RuleClass("ReLU", 1, 1, "elementwise"),
       RuleClass("Sigmoid", 1, 1, "elementwise"),
       RuleClass("BcastBinaryOp", 2, 1, "bcast") >>

\* abs_to_concrete: the shape symbols of the tensors take the record's values;
\* tensor i of the instance has the shape [s<i>] (or [o<i>])
abs_to_concrete(n_tensors, values) ==
    [i \in 1..n_tensors |-> IF i <= Len(values) THEN <<values[i]>> ELSE <<"None">>]

Raised == [ok |-> FALSE, out |-> <<>>]
Returned(out) == [ok |-> TRUE, out |-> out]

Broadcastable(a, b) == a = b \/ a = 1 \/ b = 1

\* op.checked_type_transfer: the output shapes, or a ConstraintError
checked_type_transfer(cls, its) ==
    IF cls.kind = "elementwise" THEN Returned(<<its[1]>>)
    ELSE IF Broadcastable(its[1][1], its[2][1])
         THEN Returned(<< <<IF its[1][1] = 1 THEN its[2][1] ELSE its[1][1]>> >>)
         ELSE Raised

\* op.checked_requires: the predicates, each already a truth value on
\* concrete shapes
checked_requires(cls, its) ==
    IF cls.kind = "elementwise" THEN Returned(<<>>)
    ELSE Returned(<<Broadcastable(its[1][1], its[2][1])>>)

\* the fail list of solve_inst: the fail tuples with no negative value
NonNegativeFail(db) == {inputs \in db.fail : \A j \in DOMAIN inputs : inputs[j] >= 0}

\* the rule accepts a success record
AcceptsSuccess(cls, rec) ==
    LET its == abs_to_concrete(cls.n_input, rec[1])
        tt == checked_type_transfer(cls, its)
        rq == checked_requires(cls, its)
    IN /\ tt.ok
       /\ \A i \in 1..cls.n_output : tt.out[i] = abs_to_concrete(cls.n_output, rec[2])[i]
       /\ rq.ok
       /\ \A p \in DOMAIN rq.out : rq.out[p]

\* the rule rejects a fail record: requires raises or holds a false predicate
RejectsFail(cls, inputs) ==
    LET rq == checked_requires(cls, abs_to_concrete(cls.n_input, inputs))
    IN ~rq.ok \/ \E p \in DOMAIN rq.out : ~rq.out[p]

\* the additional shape-1 check of BcastBinaryOp: when some success record
\* has no 1 among its shape symbols, the oracle must accept it with each
\* symbol set to 1 in turn (oracle: the answer of input_validity_test)
ShapeOneCheck(cls, db, oracle) ==
    (cls.name = "BcastBinaryOp" /\ \E rec \in db.success : \A j \in DOMAIN rec[1] : rec[1][j] # 1)
        => oracle

ArityAgrees(cls, w) == cls.n_input = w.n_input /\ cls.n_output = w.n_output

\* valid, at `if valid: res.append(ind)`
ClassValid(cls, db, w) ==
    /\ \A rec \in db.success : AcceptsSuccess(cls, rec)
    /\ ShapeOneCheck(cls, db, w.oracle)
    /\ \A inputs \in NonNegativeFail(db) : RejectsFail(cls, inputs)

\* one iteration of the loop over ATTR_FREE_RULES (ind is 0-based)
MatchLoopStep(db, w) ==
    LET cls == ATTR_FREE_RULES[w.ind + 1]
        last == w.ind + 1 = Len(ATTR_FREE_RULES)
        next == [w EXCEPT !.ind = @ + 1, !.pc = IF last THEN "finish" ELSE "classes"]
    IN IF ~ArityAgrees(cls, w) THEN next
       ELSE IF ClassValid(cls, db, w)
            THEN [w EXCEPT !.res = Append(@, w.ind), !.pc = "finish"]
            ELSE next

\* ------------------------------------------------------------------ the dialect-match stage
MatchWorker(n_input, oracle) ==
    [stage |-> "match", pc |-> "classes", n_input |-> n_input, n_output |-> 1,
     oracle |-> oracle, ind |-> 0, res |-> <<>>, logged |-> FALSE]

\* an operator instance with n one-dimensional input tensors and one
\* one-dimensional output, and its invocation DB
MatchDBs(n) ==
    {OpDatabase(s, f) : s \in SmallSubsets(InputTuples(n) \X [1..1 -> 1..MaxVal], 1, MaxSuccess),
                        f \in SmallSubsets(FailTuples(n), 0, MaxFail)}

MatchInit ==
    /\ NoGenerator
    /\ \E n \in 1..2 :
          /\ OpDB \in MatchDBs(n)
          /\ worker \in {MatchWorker(n, o) : o \in BOOLEAN}
    /\ fs \in {[NoFiles EXCEPT !.nnsmith_rules = f] : f \in {Absent, Previous}}

MatchTryClass ==
    /\ worker.stage = "match" /\ worker.pc = "classes"
    /\ worker' = MatchLoopStep(OpDB, worker)
    /\ UNCHANGED <<genvars, OpDB, fs>>

\* open(os.path.join(root_dir, f"{inst.name_index}.pkl"), "wb")
MatchOpen ==
    /\ worker.stage = "match" /\ worker.pc = "finish"
    /\ worker' = [worker EXCEPT !.pc = "writing"]
    /\ fs' = [fs EXCEPT !.nnsmith_rules = Partial]
    /\ UNCHANGED <<genvars, OpDB>>

\* pickle.dump(res, f) and the close of the file
MatchDump ==
    /\ worker.stage = "match" /\ worker.pc = "writing"
    /\ worker' = [worker EXCEPT !.pc = "log"]
    /\ fs' = [fs EXCEPT !.nnsmith_rules = Complete(worker.res)]
    /\ UNCHANGED <<genvars, OpDB>>

\* the line appended to ./nnsmith-process, the file every worker appends to
MatchLog ==
    /\ worker.stage = "match" /\ worker.pc = "log"
    /\ worker' = [worker EXCEPT !.pc = "done", !.logged = TRUE]
    /\ UNCHANGED <<genvars, OpDB, fs>>

MatchNext ==
    \/ MatchTryClass
    \/ MatchOpen \/ MatchDump \/ MatchLog
    \/ WorkerCrash

MatchSpec == MatchInit /\ [][MatchNext]_vars

\* ------------------------------------------------------------------ properties of the dialect-match stage
MatchFileDone == worker # <<>> /\ worker.stage = "match" /\ fs.nnsmith_rules.st = "complete"

\* the match criterion of the claim for one rule class
Matches(cls) ==
    /\ ArityAgrees(cls, worker)
    /\ \A rec \in OpDB.success : AcceptsSuccess(cls, rec)
    /\ \A inputs \in NonNegativeFail(OpDB) :
          \/ ~checked_type_transfer(cls, abs_to_concrete(cls.n_input, inputs)).ok
          \/ RejectsFail(cls, inputs)

MaxLoadedRules == 2
\* the longest rule list and the most outputs of a file on disk
MaxFileRules == 3
MaxFileOutputs == 2

\* rule strings as token lists; the second one is cut short
GoodRuleString == <<"s0", "+", "1">>
BadRuleString == <<"s0", "+">>
RuleStrings == {GoodRuleString, BadRuleString}

LeafTokens == {"s0", "s1", "1", "2"}
LeafOf(tok) ==
    CASE tok = "s0" -> Arg(0)
      [] tok = "s1" -> Arg(1)
      [] tok = "1" -> Const(1)
      [] tok = "2" -> Const(2)

\* gen_tree_from_string: the tree of a rule string, or an exception
gen_tree_from_string(str) ==
    IF Len(str) = 1 /\ str[1] \in LeafTokens
    THEN Returned(LeafTree(LeafOf(str[1])))
    ELSE IF Len(str) = 3 /\ str[1] \in LeafTokens /\ str[3] \in LeafTokens
                         /\ str[2] \in {"+", "-", "*"}
         THEN Returned(ArithExpTree(str[2], LeafOf(str[1]), LeafOf(str[3])))
         ELSE Raised

\* a file whose content pickle cannot load, or loads as something else than
\* the expected structure
Garbled == [st |-> "garbled", data |-> <<>>]

\* open() and pickle.load() succeed
Loads(file) == file.st = "complete"

SeqsUpTo(S, n) == UNION {[1..k -> S] : k \in 0..n}

\* the files a loader can find on disk
IORuleFiles ==
    {Absent, Partial, Garbled} \cup
    {Complete([output_rank |-> r, output_rules |-> outs]) :
        r \in 1..MaxFileOutputs,
        outs \in SeqsUpTo([rules : SeqsUpTo(RuleStrings, MaxFileRules)], MaxFileOutputs)}
InputRuleFiles ==
    {Absent, Partial, Garbled} \cup
    {Complete([rules |-> rs]) : rs \in SeqsUpTo(RuleStrings \X {">", ">=", "=="}, 1)}
NnsmithRuleFiles == {Absent, Partial, Garbled, Complete(<<>>), Complete(<<0>>)}
ValidityFiles == {Absent, Partial, Garbled} \cup {Complete(v) : v \in [1..3 -> BOOLEAN]}

\* the steps of the two loops of gen_type_transfer_trees in order: one per
\* rule string of output o_id, or a failing step where output_rules has no
\* entry o_id
RECURSIVE TypeTransferSteps(_, _)
TypeTransferSteps(info, o_id) ==
    IF o_id >= info.output_rank THEN <<>>
    ELSE IF o_id + 1 > Len(info.output_rules) THEN <<[o_id |-> o_id, rule |-> <<>>]>>
    ELSE LET rules == info.output_rules[o_id + 1].rules
             kept == SubSeq(rules, 1, Min(MaxLoadedRules, Len(rules)))
         IN [a \in DOMAIN kept |-> [o_id |-> o_id, rule |-> kept[a]]]
                \o TypeTransferSteps(info, o_id + 1)

\* the number of steps done before the first one that raises
RECURSIVE DoneBefore(_)
DoneBefore(steps) ==
    IF steps = <<>> \/ ~gen_tree_from_string(Head(steps).rule).ok THEN 0
    ELSE 1 + DoneBefore(Tail(steps))

\* gen_type_transfer_trees: the rules appended, and whether the except
\* branch ran ("no inferred rules" in the debug text)
gen_type_transfer_trees(file) ==
    IF ~Loads(file) THEN [rules |-> <<>>, failed |-> TRUE]
    ELSE LET steps == TypeTransferSteps(file.data, 0)
             n == DoneBefore(steps)
         IN [rules |-> [a \in 1..n |-> [o_id |-> steps[a].o_id,
                                        tree |-> gen_tree_from_string(steps[a].rule).out]],
             failed |-> n < Len(steps)]

\* gen_requires_trees
gen_requires_trees(file) ==
    IF ~Loads(file) THEN [rules |-> <<>>, failed |-> TRUE]
    ELSE LET steps == [a \in DOMAIN file.data.rules |-> [rule |-> file.data.rules[a][1],
                                                        sign |-> file.data.rules[a][2]]]
             n == DoneBefore(steps)
         IN [rules |-> [a \in 1..n |-> Rule(gen_tree_from_string(steps[a].rule).out,
                                            steps[a].sign)],
             failed |-> n < Len(steps)]

\* gen_nnsmith_rules
gen_nnsmith_rules(file) ==
    IF ~Loads(file) THEN [rules |-> <<>>, failed |-> TRUE]
    ELSE [rules |-> file.data, failed |-> FALSE]

infer_failure(file) ==
    LET valid == IF Loads(file) THEN file.data[1] ELSE FALSE
    IN IF valid THEN FALSE ELSE TRUE

judge_failure(nnsmith_rules_list, file) ==
    IF Len(nnsmith_rules_list) > 0 THEN FALSE ELSE infer_failure(file)

\* ------------------------------------------------------------------ the loading stage
NotLoaded == [rules |-> <<>>, failed |-> FALSE]
LoadWorker ==
    [stage |-> "load", pc |-> "type_transfer", type_transfer |-> NotLoaded,
     requires |-> NotLoaded, nnsmith |-> NotLoaded, failure |-> FALSE]

LoadInit ==
    /\ NoGenerator
    /\ OpDB = <<>>
    /\ worker = LoadWorker
    /\ \E io \in IORuleFiles, inp \in InputRuleFiles, nn \in NnsmithRuleFiles,
          va \in ValidityFiles :
          fs = [NoFiles EXCEPT !.IO_rules = io, !.input_rules = inp,
                               !.nnsmith_rules = nn, !.rule_validity = va]

LoadTypeTransfer ==
    /\ worker.stage = "load" /\ worker.pc = "type_transfer"
    /\ worker' = [worker EXCEPT !.pc = "requires",
                                !.type_transfer = gen_type_transfer_trees(fs.IO_rules)]
    /\ UNCHANGED <<genvars, OpDB, fs>>

LoadRequires ==
    /\ worker.stage = "load" /\ worker.pc = "requires"
    /\ worker' = [worker EXCEPT !.pc = "nnsmith",
                                !.requires = gen_requires_trees(fs.input_rules)]
    /\ UNCHANGED <<genvars, OpDB, fs>>

LoadNnsmithRules ==
    /\ worker.stage = "load" /\ worker.pc = "nnsmith"
    /\ worker' = [worker EXCEPT !.pc = "judge",
                                !.nnsmith = gen_nnsmith_rules(fs.nnsmith_rules)]
    /\ UNCHANGED <<genvars, OpDB, fs>>

JudgeFailure ==
    /\ worker.stage = "load" /\ worker.pc = "judge"
    /\ worker' = [worker EXCEPT !.pc = "done",
                                !.failure = judge_failure(worker.nnsmith.rules, fs.rule_validity)]
    /\ UNCHANGED <<genvars, OpDB, fs>>

LoadNext == LoadTypeTransfer \/ LoadRequires \/ LoadNnsmithRules \/ JudgeFailure

LoadSpec == LoadInit /\ [][LoadNext]_vars

\* ------------------------------------------------------------------ properties of the loading stage
LoadStage == worker # <<>> /\ worker.stage = "load"

\* C20 as stated: a load that fails at any point returns an empty rule
\* collection, and an operator whose rule-validity file cannot be read is an
\* inference failure exactly when it has no dialect match
C20_FailedLoadIsEmpty ==
    LoadStage =>
        /\ worker.type_transfer.failed => worker.type_transfer.rules = <<>>
        /\ worker.requires.failed => worker.requires.rules = <<>>
        /\ worker.nnsmith.failed => worker.nnsmith.rules = <<>>
        /\ (worker.pc = "done" /\ ~Loads(fs.rule_validity))
              => (worker.failure <=> worker.nnsmith.rules = <<>>)

\* ------------------------------------------------------------------ building the invocation DB
\* the records of one operator instance, its input symbols, and the
\* success count at which later records are no longer mutated (100, scaled)
MaxRecords == 3
MaxBuildSyms == 3
MutationStop == 6

\* values of a record that are no integers: Python's None and a value of
\* another type (a float), encoded outside the integers the stage computes
NonIntegers == [none |-> 0 - 99, other |-> 0 - 98]
NoneValue == NonIntegers.none
FloatValue == NonIntegers.other
isinstance_int(item) == item # NoneValue /\ item # FloatValue

\* input_validity_test(inst, input_dict): the operator run on the inputs,
\* outputs None (Raised) when the operator rejects them; one of a family of
\* operators
Oracles == {"positive", "never", "float", "none", "long"}
input_validity_test(oracle, d) ==
    IF oracle = "never" \/ \E k \in DOMAIN d : d[k] < 1 THEN Raised
    ELSE CASE oracle = "positive" -> Returned(<<d[1]>>)
           [] oracle = "float" -> Returned(<<FloatValue>>)
           [] oracle = "none" -> Returned(<<NoneValue>>)
           [] oracle = "long" -> Returned(<<d[1], d[1]>>)

\* OpDatabase.Add
DBAdd(db, inputs, res) ==
    IF ~res.ok THEN [db EXCEPT !.fail = @ \cup {inputs}]
    ELSE [db EXCEPT !.success = @ \cup {<<inputs, res.out>>}]

InvocationCount_success(db) == Cardinality(db.success)

\* OpDatabase.validity_check
validity_check(db) ==
    /\ \A entry \in db.success :
          /\ \A a \in DOMAIN entry[1] : isinstance_int(entry[1][a]) \/ entry[1][a] = NoneValue
          /\ \A a \in DOMAIN entry[2] : isinstance_int(entry[2][a]) \/ entry[2][a] = NoneValue
    /\ \A e1, e2 \in db.success : Len(e1[1]) = Len(e2[1])

\* one probe of mutate: the step that issues it, its symbols, the inputs
Probe(kind, i, j, d) == [kind |-> kind, i |-> i, j |-> j, d |-> d]

SetAt(d, i, v) == [d EXCEPT ![i + 1] = v]
Swap(d, i, j) == [d EXCEPT ![i + 1] = d[j + 1], ![j + 1] = d[i + 1]]
\* the pairs i < j in the order of the two nested loops
PairSeq(n) == Flat([i \in 1..n |-> [k \in 1..(n - i) |-> <<i - 1, i - 1 + k>>]])

\* step 1: every symbol that is no shape symbol of the instance set to 0, to -2
Step1Probes(d, I) ==
    Flat([a \in 1..Len(d) |->
            IF (a - 1) \in I THEN <<>>
            ELSE << Probe("zero", a - 1, a - 1, SetAt(d, a - 1, 0)),
                    Probe("neg", a - 1, a - 1, SetAt(d, a - 1, 0 - 2)) >>])

\* step 2: input_dict at the swap of the pair (i, j)
SwapBase_Original(d, i, j) == d
SwapBase(d, i, j) == IF d[i + 1] = d[j + 1] THEN SetAt(d, j, d[j + 1] + 1) ELSE d

Step2Pair(d, i, j) ==
    (IF d[i + 1] = d[j + 1] THEN <<Probe("incr", i, j, SwapBase(d, i, j))>> ELSE <<>>)
        \o <<Probe("swap", i, j, Swap(SwapBase(d, i, j), i, j))>>

Step2Probes(d) ==
    LET ps == PairSeq(Len(d)) IN Flat([a \in DOMAIN ps |-> Step2Pair(d, ps[a][1], ps[a][2])])

Bit(mask, argNum) == (mask \div (2 ^ argNum)) % 2 = 1
\* mutateTarget: delta added to the symbols of the mask
mutateTarget(d, mask, delta) ==
    [a \in DOMAIN d |-> IF Bit(mask, a - 1) THEN d[a] + delta ELSE d[a]]

SubsetProbes(d) ==
    IF Len(d) <= 8
    THEN [m \in 1..(2 ^ Len(d) - 1) |-> Probe("subset", m, 2, mutateTarget(d, m, 2))]
    ELSE <<>>
OneElementProbes(d) ==
    IF Len(d) <= 100
    THEN Flat([a \in 1..Len(d) |->
                 [delta \in 1..3 |-> Probe("one", a - 1, delta, mutateTarget(d, 2 ^ (a - 1), delta))]])
    ELSE <<>>
TwoElementProbes(d) ==
    IF Len(d) <= 50
    THEN LET ps == PairSeq(Len(d))
         IN Flat([a \in DOMAIN ps |->
                    [delta \in 1..2 |->
                        Probe("two", ps[a][1], ps[a][2],
                              mutateTarget(d, 2 ^ ps[a][1] + 2 ^ ps[a][2], delta))]])
    ELSE <<>>

\* the inputs mutate submits for one record, in order
Probes(d, I) ==
    Step1Probes(d, I) \o Step2Probes(d) \o SubsetProbes(d) \o OneElementProbes(d)
        \o TwoElementProbes(d)

\* add_new_input, and the same test after mutateTarget
add_new_input(db, oracle, d, output_len) ==
    LET res == input_validity_test(oracle, d)
    IN IF res.ok /\ Len(res.out) # output_len THEN db ELSE DBAdd(db, d, res)

RECURSIVE AddProbes(_, _, _, _)
AddProbes(db, oracle, probes, output_len) ==
    IF probes = <<>> THEN db
    ELSE AddProbes(add_new_input(db, oracle, Head(probes).d, output_len), oracle,
                   Tail(probes), output_len)

mutate(db, oracle, I, record) ==
    AddProbes(db, oracle, Probes(record[1], I), Len(record[2]))

\* `if mutated and OpDB.InvocationCount(type="success") >= 100: continue`
SkipRecord_Gt(mutated, count) == mutated /\ count > MutationStop
SkipRecord(mutated, count) == mutated /\ count >= MutationStop

\* ------------------------------------------------------------------ the DB-building stage
BuildWorker(records, I, oracle, enableMutation, skipped) ==
    [stage |-> "build", pc |-> "add", records |-> records, given |-> records, I |-> I,
     oracle |-> oracle, enableMutation |-> enableMutation, skipMutationAPI |-> skipped,
     next |-> 1, mutated |-> FALSE, log |-> <<>>, probes |-> <<>>, probed |-> 0,
     status |-> "none"]

BuildRecords(n) == [1..n -> 1..2] \X {<<1>>}

BuildInit ==
    /\ NoGenerator
    /\ OpDB = OpDatabase({}, {})
    /\ fs = NoFiles
    /\ \E n \in 1..MaxBuildSyms, len \in 1..MaxRecords :
          worker \in {BuildWorker(rs, I, o, m[1], m[2]) :
                        rs \in [1..len -> BuildRecords(n)], I \in SUBSET (0..(n - 1)),
                        o \in Oracles, m \in {<<FALSE, FALSE>>, <<TRUE, TRUE>>, <<TRUE, FALSE>>}}

\* the records added and the first OpDB.dump
BuildAddRecords ==
    /\ worker.stage = "build" /\ worker.pc = "add"
    /\ LET db == OpDatabase(Range(worker.records), {})
       IN /\ OpDB' = db
          /\ fs' = [fs EXCEPT !.InvocDB = Complete(db)]
    /\ worker' = [worker EXCEPT !.pc = "records"]
    /\ UNCHANGED genvars

\* one pass of the loop over the records
BuildRecord ==
    /\ worker.stage = "build" /\ worker.pc = "records"
    /\ LET record == worker.records[worker.next]
           count == InvocationCount_success(OpDB)
           does == /\ worker.enableMutation /\ ~worker.skipMutationAPI
                   /\ ~SkipRecord(worker.mutated, count)
           pc == IF worker.next = Len(worker.records) THEN "validate" ELSE "records"
       IN /\ OpDB' = IF does THEN mutate(OpDB, worker.oracle, worker.I, record) ELSE OpDB
          /\ worker' = [worker EXCEPT
                          !.pc = pc, !.next = @ + 1,
                          !.mutated = @ \/ does,
                          !.log = Append(@, [mutated |-> does, count |-> count]),
                          !.probes = IF does THEN Probes(record[1], worker.I) ELSE @,
                          !.probed = IF does THEN worker.next ELSE @]
    /\ UNCHANGED <<genvars, fs>>

\* validity_check, the second dump and the status line
BuildValidate ==
    /\ worker.stage = "build" /\ worker.pc = "validate"
    /\ IF validity_check(OpDB)
       THEN /\ fs' = [fs EXCEPT !.InvocDB = Complete(OpDB)]
            /\ worker' = [worker EXCEPT !.pc = "done", !.status = "complete"]
       ELSE /\ fs' = fs
            /\ worker' = [worker EXCEPT !.pc = "done", !.status = "error"]
    /\ UNCHANGED <<genvars, OpDB>>

BuildNext == BuildAddRecords \/ BuildRecord \/ BuildValidate

BuildSpec == BuildInit /\ [][BuildNext]_vars

\* ------------------------------------------------------------------ properties of the DB-building stage
BuildStage == worker # <<>> /\ worker.stage = "build"

\* C21 as stated: an operator whose DB validation fails is reported with
\* status error and no invocation-DB file of it is on disk
C21_NoDBFileAfterError ==
    (BuildStage /\ worker.pc = "done" /\ ~validity_check(OpDB))
        => (worker.status = "error" /\ fs.InvocDB.st = "absent")

\* the record the probes in worker.probes were derived from
ProbedInputs == worker.records[worker.probed][1]
SwapProbes == {a \in DOMAIN worker.probes : worker.probes[a].kind = "swap"}

\* C26: with mutation enabled and the operator not on the skip list the
\* first record is mutated and a later record is mutated exactly when the
\* DB held fewer success tuples than the stop count when it was reached;
\* no record of an operator on the skip list is mutated
C26_MutationSchedule ==
    BuildStage =>
        /\ (worker.enableMutation /\ ~worker.skipMutationAPI) =>
              \A k \in DOMAIN worker.log :
                  worker.log[k].mutated <=> (k = 1 \/ worker.log[k].count < MutationStop)
        /\ worker.skipMutationAPI => \A k \in DOMAIN worker.log : ~worker.log[k].mutated

\* three records reached, the second mutated and the third skipped
C26_Witness ==
    /\ BuildStage /\ worker.pc = "done"
    /\ worker.enableMutation /\ ~worker.skipMutationAPI
    /\ Len(worker.log) = 3
    /\ worker.log[1].mutated /\ worker.log[2].mutated /\ ~worker.log[3].mutated

\* C27 as stated: every swap probe is the original record's assignment with
\* the values of s_i and s_j exchanged, and the record is not modified
C27_SwapOfOriginal ==
    (BuildStage /\ worker.probed > 0) =>
        /\ \A a \in SwapProbes :
              worker.probes[a].d = Swap(ProbedInputs, worker.probes[a].i, worker.probes[a].j)
        /\ worker.records = worker.given

\* C27 amended: the swap probe exchanges s_i and s_j of the original
\* assignment when their values differ; when they are equal it holds the
\* original value plus one at s_i and the original value at s_j; every other
\* symbol keeps its original value, and the record is not modified
C27_SwapOfProbedAssignment ==
    (BuildStage /\ worker.probed > 0) =>
        /\ \A a \in SwapProbes :
              LET p == worker.probes[a]
                  o == ProbedInputs
              IN /\ Len(p.d) = Len(o)
                 /\ \A k \in DOMAIN o : (k # p.i + 1 /\ k # p.j + 1) => p.d[k] = o[k]
                 /\ o[p.i + 1] # o[p.j + 1] => (p.d[p.i + 1] = o[p.j + 1] /\ p.d[p.j + 1] = o[p.i + 1])
                 /\ o[p.i + 1] = o[p.j + 1] => (p.d[p.i + 1] = o[p.j + 1] + 1 /\ p.d[p.j + 1] = o[p.i + 1])
        /\ worker.records = worker.given

\* a swap probe of two symbols with equal original values, a third symbol present
C27_Witness ==
    /\ BuildStage /\ worker.probed > 0
    /\ Len(ProbedInputs) = 3
    /\ \E a \in SwapProbes :
          ProbedInputs[worker.probes[a].i + 1] = ProbedInputs[worker.probes[a].j + 1]

\* ------------------------------------------------------------------ validity_check on any DB
MaxValidLen == 2
ValidValues == {1, NoneValue, FloatValue}
ValidTuples == UNION {[1..k -> ValidValues] : k \in 1..MaxValidLen}
ValidWorker == [stage |-> "valid", pc |-> "check", valid |-> FALSE]

ValidInit ==
    /\ NoGenerator
    /\ fs = NoFiles
    /\ worker = ValidWorker
    /\ OpDB \in {OpDatabase(s, {}) :
                   s \in SmallSubsets(ValidTuples \X [1..1 -> ValidValues], 0, MaxSuccess)}

ValidityCheck ==
    /\ worker.stage = "valid" /\ worker.pc = "check"
    /\ worker' = [worker EXCEPT !.pc = "done", !.valid = validity_check(OpDB)]
    /\ UNCHANGED <<genvars, OpDB, fs>>

ValidNext == ValidityCheck

ValidSpec == ValidInit /\ [][ValidNext]_vars

\* C22 as stated: validity_check returns True exactly when all success
\* input tuples have one arity and every value of every success record is an
\* integer
C22_ValidIffIntegers ==
    (worker # <<>> /\ worker.stage = "valid" /\ worker.pc = "done") =>
        (worker.valid <=>
            /\ \A e1, e2 \in OpDB.success : Len(e1[1]) = Len(e2[1])
            /\ \A e \in OpDB.success :
                  /\ \A a \in DOMAIN e[1] : isinstance_int(e[1][a])
                  /\ \A a \in DOMAIN e[2] : isinstance_int(e[2][a]))

\* ------------------------------------------------------------------ rule synthesis to its end
\* the two synthesisers run by a scheduler that never stops a live worker:
\* the steps of solve_inst of either stage, none of them a crash
SynthInit ==
    /\ NoGenerator
    /\ fs = NoFiles
    /\ \/ /\ OpDB \in DBs(1, 0)
          /\ worker \in {ShapeWorker(z) : z \in BOOLEAN}
       \/ /\ OpDB \in ConstrDBs(1)
          /\ worker = ConstrWorker

SynthNext ==
    \/ AnalyzeSymbol
    \/ ShapeTryTree \/ ShapeTimeout
    \/ ShapeOpen \/ ShapeDump
    \/ ConstrConstants
    \/ ConstrTryTree \/ ConstrTimeout
    \/ ConstrOpen \/ ConstrDump

SynthSpec == SynthInit /\ [][SynthNext]_vars /\ WF_vars(SynthNext)

\* the rule file of the stage is written
SynthWritten ==
    /\ worker.pc = "done"
    /\ (worker.stage = "shape" => fs.IO_rules.st = "complete")
    /\ (worker.stage = "constr" => fs.input_rules.st = "complete")

\* the shape-rule file holds one entry per output index, with the rules of
\* the trees admitted in the loop, or else the rank literal or nothing
ShapeFileAsAdmitted ==
    LET info == fs.IO_rules.data
        vts == worker.valid_tree_set
    IN /\ info.output_rank = Len(OpDB.unrelated)
       /\ Len(info.output_rules) = info.output_rank
       /\ \A k \in DOMAIN info.output_rules :
             LET dd == info.output_rules[k]
             IN /\ dd.o_id = k - 1
                /\ dd.rule_count = Len(dd.rules)
                /\ dd.tree_tried = worker.tree_tried
                /\ IF vts[k] # <<>>
                   THEN dd.rules = [a \in DOMAIN vts[k] |-> remap(vts[k][a].tree, vts[k][a].sym_list)]
                   ELSE dd.rules \in {<<>>, <<LeafTree(Const(InputLen(OpDB)))>>}

\* the input-constraint file holds the pairs of the ruleset at the end of the loop
ConstrFileAsAdmitted ==
    fs.input_rules.data.rules =
        [a \in DOMAIN worker.ruleset |-> <<worker.ruleset[a].rule, worker.ruleset[a].sign>>]

ValidFor(p, k) ==
    LET tree == ShapeTrees(OpDB)[p]
    IN \E sym_list \in Range(gen_sym_set(InputLen(OpDB), popcount(ArgSet(tree)))) :
          /\ ~check_duplicate_sym(OpDB, sym_list)
          /\ ValidTree(OpDB, tree, sym_list, k - 1, worker.cfg_zerofilter)

\* the trees tested so far: worker.next is the next tree of the enumeration
TestedTrees == 1..(worker.next - 1)
\* the loop is running or has just been left
Searching == ShapeStage /\ worker.pc \in {"trees", "finish"}

\* C25: the rules of an output come from one tree, the first of the
\* enumeration that is valid for it on an admissible subset; no tree is
\* tested for an output after that one, and no tree is tested once every
\* output has a rule
C25_FirstValidTree ==
    Searching =>
        /\ \A k \in DOMAIN worker.valid_tree_set :
              LET vt == worker.valid_tree_set[k]
              IN IF vt = <<>>
                 THEN \A p \in TestedTrees : ~ValidFor(p, k)
                 ELSE \E p \in TestedTrees :
                        /\ \A a \in DOMAIN vt : vt[a].tree = ShapeTrees(OpDB)[p]
                        /\ ValidFor(p, k)
                        /\ \A q \in 1..(p - 1) : ~ValidFor(q, k)
        /\ (worker.next > 1 /\ ~happen(worker)) =>
              \E k \in DOMAIN worker.valid_tree_set :
                  worker.valid_tree_set[k][1].tree = ShapeTrees(OpDB)[worker.next - 1]

\* two outputs whose rules come from different trees, the search over
C25_Witness ==
    /\ Searching /\ worker.pc = "finish" /\ ~worker.timed_out
    /\ Len(worker.valid_tree_set) = 2
    /\ ~happen(worker)
    /\ worker.valid_tree_set[1][1].tree # worker.valid_tree_set[2][1].tree
    /\ Len(worker.valid_tree_set[1]) >= 2

\* ------------------------------------------------------------------ operator instances
\* autoinf/instrument/op.py: OpInstance.__init__ symbolises one record
MaxInstArgs == 2
MaxListLen == 2

\* the values of a record: numpy arrays, integers, booleans, opaque objects
\* and lists of them
NdArray(shape) == [kind |-> "ndarray", shape |-> shape, value |-> 0, items |-> <<>>]
IntValue(v) == [kind |-> "int", shape |-> <<>>, value |-> v, items |-> <<>>]
BoolValue == [kind |-> "bool", shape |-> <<>>, value |-> 1, items |-> <<>>]
OtherValue == [kind |-> "other", shape |-> <<>>, value |-> 0, items |-> <<>>]
ListValue(items) == [kind |-> "list", shape |-> <<>>, value |-> 0, items |-> items]

ListAtoms == {NdArray(<<2>>), NdArray(<<2, 3>>), IntValue(5), OtherValue}
InstAtoms == ListAtoms \cup {NdArray(<<>>), BoolValue}
FlatLists == {ListValue(s) : s \in SeqsUpTo(ListAtoms, MaxListLen)}
NestedLists == {ListValue(<<ListValue(<<a>>), b>>) : a, b \in ListAtoms}
InstValues == InstAtoms \cup FlatLists \cup NestedLists
OutputLists ==
    {ListValue(s) : s \in SeqsUpTo({NdArray(<<>>), NdArray(<<4>>), NdArray(<<2, 3>>), IntValue(7)}, 1)}
    \cup {ListValue(<<NdArray(<<4>>), NdArray(<<2, 3>>)>>),
          ListValue(<<ListValue(<<NdArray(<<4>>), OtherValue>>), NdArray(<<2>>)>>)}

ArgNames == {"dim", "size"}
IntPolicies == {"fix", "fix_dim", "symb"}
InstRecords ==
    [name : {"torch.sum"},
     args : SeqsUpTo([name : ArgNames, value : InstValues], MaxInstArgs),
     outputs : OutputLists]

\* the abstract values
AbsValue(value) == [kind |-> "AbsValue", rank |-> 0, shape |-> <<>>, value |-> value, items |-> <<>>]
AbsInt(symb) == [kind |-> "AbsInt", rank |-> 0, shape |-> <<>>, value |-> symb, items |-> <<>>]
AbsTensor(rank, shape) == [kind |-> "AbsTensor", rank |-> rank, shape |-> shape, value |-> 0, items |-> <<>>]
AbsList(items) == [kind |-> "list", rank |-> 0, shape |-> <<>>, value |-> 0, items |-> items]

\* x.ndim and list(x.shape) of a numpy array
from_numpy(x) == AbsTensor(Len(x.shape), x.shape)

is_int_not_bool(value) == value.kind = "int"

_keep_int_value(int_policy, arg_name) ==
    \/ int_policy = "fix"
    \/ int_policy = "fix_dim" /\ arg_name = "dim"

data_type_str(value, keep) == <<value.kind, keep /\ value.kind = "int">>

\* f"s{len(symb_2_value)}" with an index that starts at one
Symb_FromOne(prefix, symb_2_value) == [p |-> prefix, n |-> Cardinality(DOMAIN symb_2_value) + 1]

\* f"s{len(symb_2_value)}"
Symb(prefix, symb_2_value) == [p |-> prefix, n |-> Cardinality(DOMAIN symb_2_value)]

\* symb_2_value[symb] = s
DictSet(d, k, v) == [x \in DOMAIN d \cup {k} |-> IF x = k THEN v ELSE d[x]]

\* the loop over abs_tensor.shape: one new symbol per dimension
RECURSIVE Symbolize(_, _, _, _)
Symbolize(prefix, symb_2_value, abs_tensor, i_s) ==
    IF i_s > Len(abs_tensor.shape) THEN [d |-> symb_2_value, t |-> abs_tensor]
    ELSE LET symb == Symb(prefix, symb_2_value)
         IN Symbolize(prefix, DictSet(symb_2_value, symb, abs_tensor.shape[i_s]),
                      [abs_tensor EXCEPT !.shape[i_s] = symb], i_s + 1)

\* _add_input_arg on the instance st; the abstract value is returned in .ret
RECURSIVE _add_input_arg(_, _, _)
RECURSIVE AddInputList(_, _, _, _, _)
AddInputList(st, items, arg_name, i, acc) ==
    IF i > Len(items) THEN [st EXCEPT !.ret = AbsList(acc)]
    ELSE LET one == _add_input_arg(st, items[i], arg_name)
         IN AddInputList(one, items, arg_name, i + 1, Append(acc, one.ret))

_add_input_arg(st, value, arg_name) ==
    IF value.kind = "list" THEN AddInputList(st, value.items, arg_name, 1, <<>>)
    ELSE IF value.kind = "ndarray"
    THEN LET sy == Symbolize("s", st.input_symb_2_value, from_numpy(value), 1)
         IN [st EXCEPT !.input_symb_2_value = sy.d,
                       !.input_tensors = Append(@, sy.t),
                       !.ret = sy.t]
    ELSE IF ~_keep_int_value(st.int_policy, arg_name) /\ is_int_not_bool(value)
    THEN LET symb == Symb("s", st.input_symb_2_value)
         IN [st EXCEPT !.input_symb_2_value = DictSet(@, symb, value.value),
                       !.int_attrs = Append(@, AbsInt(symb)),
                       !.ret = AbsInt(symb)]
    ELSE [st EXCEPT !.other_attrs = Append(@, AbsValue(value)), !.ret = AbsValue(value)]

\* _parse_output_value: acc holds symb_2_value and output_tensors
RECURSIVE _parse_output_value(_, _)
RECURSIVE ParseOutputList(_, _, _)
ParseOutputList(acc, items, i) ==
    IF i > Len(items) THEN acc
    ELSE ParseOutputList(_parse_output_value(acc, items[i]), items, i + 1)

_parse_output_value(acc, value) ==
    IF value.kind = "list" THEN ParseOutputList(acc, value.items, 1)
    ELSE IF value.kind = "ndarray"
    THEN LET sy == Symbolize("o", acc.symb_2_value, from_numpy(value), 1)
         IN [symb_2_value |-> sy.d, output_tensors |-> Append(acc.output_tensors, sy.t)]
    ELSE acc

output_info(out_list) == _parse_output_value([symb_2_value |-> <<>>, output_tensors |-> <<>>], out_list)

\* the projections
OI_I(st) == Flat([t \in DOMAIN st.input_tensors |-> st.input_tensors[t].shape])
OI_A(st) ==
    {n \in DOMAIN st.input_symb_2_value :
        \A t \in DOMAIN st.input_tensors : n \notin Range(st.input_tensors[t].shape)}
OI_O(st) == DOMAIN st.output_symb_2_value

\* the state of __init__ before the loop over the arguments
InstWorker(record, int_policy) ==
    [stage |-> "inst", pc |-> "args", record |-> record, int_policy |-> int_policy,
     i_arg |-> 1,
     input_symb_2_value |-> <<>>, output_symb_2_value |-> <<>>,
     input_tensors |-> <<>>, output_tensors |-> <<>>,
     int_attrs |-> <<>>, other_attrs |-> <<>>,
     abs_values |-> <<>>, input_types |-> <<>>, ret |-> <<>>]

InstInit ==
    /\ NoGenerator
    /\ fs = NoFiles
    /\ OpDB = OpDatabase({}, {})
    /\ worker \in {InstWorker(r, p) : r \in InstRecords, p \in IntPolicies}

\* one turn of the loop over record_args["value"]
InstAddArg ==
    /\ worker.stage = "inst" /\ worker.pc = "args"
    /\ worker.i_arg <= Len(worker.record.args)
    /\ LET arg == worker.record.args[worker.i_arg]
           typed == [worker EXCEPT !.input_types =
                        Append(@, data_type_str(arg.value, _keep_int_value(worker.int_policy, arg.name)))]
           added == _add_input_arg(typed, arg.value, arg.name)
       IN worker' = [added EXCEPT !.abs_values = Append(@, added.ret), !.i_arg = @ + 1]
    /\ UNCHANGED <<genvars, OpDB, fs>>

\* the call of output_info that ends __init__
InstOutputInfo ==
    /\ worker.stage = "inst" /\ worker.pc = "args"
    /\ worker.i_arg > Len(worker.record.args)
    /\ LET out == output_info(worker.record.outputs)
       IN worker' = [worker EXCEPT !.output_symb_2_value = out.symb_2_value,
                                   !.output_tensors = out.output_tensors,
                                   !.pc = "done"]
    /\ UNCHANGED <<genvars, OpDB, fs>>

InstNext == InstAddArg \/ InstOutputInfo

InstSpec == InstInit /\ [][InstNext]_vars

Constructed == worker # <<>> /\ worker.stage = "inst" /\ worker.pc = "done"

\* the number of places a symbol is used in: slots of tensor shapes and
\* integer attributes
Uses(symb, tensors, ints) ==
    Cardinality({<<t, a>> \in (DOMAIN tensors) \X (1..MaxRank) :
                    a \in DOMAIN tensors[t].shape /\ tensors[t].shape[a] = symb})
    + Cardinality({a \in DOMAIN ints : ints[a].value = symb})

\* C24: after construction the input keys are s0..s(k-1) and the output keys
\* o0..o(m-1), every symbol is used in one place, I and A are disjoint and
\* make up the input keys, O is the output keys, and the rank of every
\* tensor is the length of its shape list
C24_DenseSymbols ==
    Constructed =>
        LET ins == DOMAIN worker.input_symb_2_value
            outs == DOMAIN worker.output_symb_2_value
            I == Range(OI_I(worker))
            A == OI_A(worker)
        IN /\ ins = {[p |-> "s", n |-> k] : k \in 0..(Cardinality(ins) - 1)}
           /\ outs = {[p |-> "o", n |-> k] : k \in 0..(Cardinality(outs) - 1)}
           /\ \A s \in ins : Uses(s, worker.input_tensors, worker.int_attrs) = 1
           /\ \A o \in outs : Uses(o, worker.output_tensors, <<>>) = 1
           /\ Len(OI_I(worker)) = Cardinality(I)
           /\ I \cap A = {}
           /\ I \cup A = ins
           /\ OI_O(worker) = outs
           /\ \A t \in Range(worker.input_tensors) \cup Range(worker.output_tensors) :
                 t.rank = Len(t.shape)

\* a record with a tensor inside a nested list, an integer attribute made a
\* symbol between two tensors, and two output tensors
C24_Witness ==
    /\ Constructed
    /\ Len(worker.input_tensors) = 2
    /\ Len(worker.int_attrs) = 1
    /\ worker.int_attrs[1].value = [p |-> "s", n |-> 1]
    /\ worker.record.args[1].value.kind = "list"
    /\ worker.record.args[1].value.items[1].kind = "list"
    /\ Len(worker.output_tensors) = 2
    /\ Cardinality(DOMAIN worker.input_symb_2_value) = 4

\* ------------------------------------------------------------------ the solution at make_concrete
\* abstract_gen has returned in a symbolic run: model_gen hands the generator
\* to its caller, who calls make_concrete
AtMakeConcrete == method = "symbolic" /\ run.pc = "done"

\* C30: at make_concrete after abstract_gen, last_solution is a model of
\* the solver that satisfies every asserted constraint, in every symbolic
\* run, those without a successful insertion included
C30_LastSolutionSatisfiesSolver ==
    AtMakeConcrete =>
        /\ G.last_solution.has
        /\ \A i \in DOMAIN G.solver : Holds(G.solver[i], G.last_solution.m)

\* what the code keeps: once a check has ended sat, last_solution satisfies
\* every constraint the solver holds
SolutionOnceSatSatisfiesSolver ==
    (method = "symbolic" /\ run.pc \in {"loop", "done"} /\ G.last_solution.has) =>
        \A i \in DOMAIN G.solver : Holds(G.solver[i], G.last_solution.m)

\* a symbolic run that ended with no model: abstract_gen has returned and
\* last_solution is None
NoSolutionAtMakeConcrete == AtMakeConcrete /\ ~G.last_solution.has

\* ------------------------------------------------------------------ a wider opset and finder
\* model_gen takes the opset and the record finder from its caller. WideSpec
\* runs the generator with an opset that also holds the two-output operator
\* class and a finder that also holds a record of an operator without tensor
\* inputs (an operator that builds its output from integer arguments only).
NoInputRecord ==
    [op |-> "rec_ones", itensors |-> <<>>,
     otensors |-> <<CT(<<2>>, "float32")>>, attrs |-> <<Conc(2)>>]

\* BaseGen.try_insert when pick_next_op_type draws the two-output class
PickTypeWideSteps(r) ==
    IF AtBase(r) /\ (method \in RecordModes => ~DtypeImpossible(r.g))
    THEN {Step([Begun(r) EXCEPT !.pc = "pick", !.node_t = TwoOutputName,
                                !.picks = MaxTensorPickTime,
                                !.last = Last("pick_type", Plain(""))], FALSE)}
    ELSE {}

\* try_concrete_insert_backward when the shuffle puts the operator of
\* NoInputRecord first and the record matches a live placeholder
RecordWideSteps(r) ==
    IF LoopRuns(r) /\ method \in {"dynofuzz-r", "dynofuzz"}
    THEN AfterBranch(r, "record_bwd",
                     Branch({RecordBackwardCommit(r.g, NoInputRecord, ovars) :
                                ovars \in BackwardMatches(r.g, NoInputRecord,
                                                          Range(r.g.placeholders))}))
    ELSE {}

PickTypeWide == Take(PickTypeWideSteps(run))
RecordBackwardWide == Take(RecordWideSteps(run))

WideNext == Next \/ PickTypeWide \/ RecordBackwardWide

WideSpec == Init /\ [][WideNext]_vars

C29_DistinctOccupiedPlaceholders ==
    (L.kind \in Backward /\ L.res \in {"ok", "crash"}) =>
        /\ \A j, k \in DOMAIN L.phs : j # k => L.phs[j] # L.phs[k]
        /\ L.res # "crash"

\* the record of the operator without tensor inputs has taken the place of
\* the only placeholder: the list is empty
EmptiedPlaceholders ==
    /\ method = "dynofuzz-r" /\ run.pc = "loop"
    /\ L.kind = "record_bwd" /\ L.res = "ok"
    /\ G.placeholders = <<>>

\* the two-output class was given one placeholder for both outputs
SamePlaceholderTwice ==
    /\ L.kind = "dialect_bwd" /\ L.res = "crash" /\ run.pc = "crashed"
    /\ Len(L.phs) = 2 /\ L.phs[1] = L.phs[2]

====
